---- MODULE Spec2Model ----
(***************************************************************************)
(* A model of the deterministic core of gost-formatter-api:                *)
(*   - clean_text            (src/cleanup_dataset.py), the punctuation     *)
(*                           normalizer;                                   *)
(*   - _detect_document_type (src/gost_formatter_agent.py), the ordered    *)
(*                           type classifier;                              *)
(*   - VAKParser.parse_*     (src/vak_parser.py), the field extractor, its *)
(*                           confidence score and the loop over a page;    *)
(*   - format_batch, format_batch_async, format_single                     *)
(*                           (src/gost_formatter_agent.py), the calls of   *)
(*                           the model and the counters;                   *)
(*   - check_punctuation_errors (src/validate_dataset.py);                 *)
(*   - DatasetExpander.expand  (src/dataset_expander.py);                  *)
(*   - MetadataLookup.lookup   (src/metadata_lookup.py).                   *)
(*                                                                         *)
(* A text is a sequence of Unicode code points (ord(ch) of each character  *)
(* of the Python str), so character classes are the ranges the regular     *)
(* expressions name.  The modelled alphabet is ASCII, the Cyrillic block   *)
(* U+0400..U+045F, EN DASH U+2013 (8211), EM DASH U+2014 (8212) and        *)
(* NUMERO SIGN U+2116 (8470).  Every literal is followed by the string it  *)
(* encodes.                                                                *)
(***************************************************************************)
EXTENDS Integers, Sequences, FiniteSets

VARIABLES
    text,       \* the input citation string
    nfrag,      \* how many fragments the input was built from
    pc,         \* "input" while the input is drawn; then "done", or "classified"
                \* and "parsed", as the operations are applied, "raised" when
                \* parse_example raised
    cleaned,    \* clean_text(text)
    recleaned,  \* clean_text(clean_text(text))
    tag,        \* _detect_document_type(text)
    tag_clean,  \* _detect_document_type(clean_text(text))
    record,     \* parse_example(text, source_type, index), or None
    pub_year,   \* parse_year(text), or None
    call,       \* format_batch / format_batch_async: "idle", "sync", "async",
                \* "returned" or "raised"
    sources,    \* the sources of the call, each one known by its id
    batches,    \* sources[i:i + batch_size] for i in range(0, len(sources), batch_size)
    semaphore,  \* the permits asyncio.Semaphore(max_concurrent) has left
    task,       \* where each batch's request stands: "waiting", "requesting",
                \* "done" or "failed"
    all_results, \* what process_one_batch returned for each batch
    results,    \* the list the call builds and returns
    stats,      \* self.stats: "processed" and "errors_fixed"
    max_concurrent, \* the permits the call's semaphore was made with
    returned,   \* what the calls have returned to their callers so far: how
                \* many results, and how many fixes these results list
    others,     \* the other calls of format_batch_async on the event loop:
                \* they wait for their replies while the call above runs
    errors,     \* the kinds of the errors check_punctuation_errors returned
    raised,     \* the exception a call ended with, "" when it returned
    records,    \* DatasetExpander: self.records, the loaded dataset
    target_count,           \* the arguments of expand
    variations_per_record,
    expanded,   \* self.expanded
    self_idx,   \* self.idx
    variation_counts,       \* expand's dict of counters
    cursor,     \* the record of records_to_vary the for loop is at
    epc,        \* "load" while the dataset is drawn, "for" in the loops of
                \* expand, "returned"
    http_requests,  \* MetadataLookup: the requests self.client.get was asked for
    result,     \* the MetadataResult of lookup, or None
    page,       \* parse_page: the tables of the page, each a list of rows
    position,   \* <<table, row>> of the row the loops are at
    current_source_type,
    page_index, \* the local index of parse_page
    page_records,   \* the list records
    ppc         \* "page" while the page is drawn, "rows" in the loops of
                \* parse_page, "returned"

\* the text under work, and the batch call
tvars == <<text, nfrag, pc, cleaned, recleaned, tag, tag_clean, record, pub_year>>
bvars == <<call, sources, batches, semaphore, task, all_results, results, stats,
           max_concurrent, returned, others>>
vvars == <<errors, raised>>
evars == <<records, target_count, variations_per_record, expanded, self_idx,
           variation_counts, cursor, epc>>
lvars == <<http_requests, result>>
pvars == <<page, position, current_source_type, page_index, page_records, ppc>>
xvars == <<vvars, evars, lvars, pvars>>
vars == <<tvars, bvars, xvars>>

\* an Optional value: Python's None, or Some(v) for the value v
None == <<>>
Some(v) == <<v>>
\* the tag variables before a classification
NoTag == "None"

(***************************************************************************)
(* Character classes, as Python's re module (str patterns) decides them.   *)
(***************************************************************************)
\* \d
IsDigit(c) == c \in 48..57
\* [а-яё]
IsCyrLower(c) == c \in 1072..1103 \/ c = 1105
\* [А-ЯЁ]
IsCyrUpper(c) == c \in 1040..1071 \/ c = 1025
\* [a-z]
IsLatLower(c) == c \in 97..122
\* [A-Z]
IsLatUpper(c) == c \in 65..90
\* [А-ЯЁA-Z]
IsUpper(c) == IsCyrUpper(c) \/ IsLatUpper(c)
\* [а-яёa-z]
IsLower(c) == IsCyrLower(c) \/ IsLatLower(c)
\* [А-ЯЁа-яёA-Za-z]
IsLetter(c) == IsUpper(c) \/ IsLower(c)
\* \s (str.isspace)
IsSpace(c) == c \in (9..13) \cup (28..32) \cup {133, 160}
\* \w: alphanumeric or underscore
IsWord(c) == c \in (48..57) \cup (65..90) \cup {95} \cup (97..122) \cup (1024..1119)
\* str.lower() of one character
LowerChar(c) ==
    IF c \in 65..90 THEN c + 32
    ELSE IF c \in 1040..1071 THEN c + 32
    ELSE IF c \in 1024..1039 THEN c + 80
    ELSE c

(***************************************************************************)
(* Strings.                                                                *)
(***************************************************************************)
\* str.lower()
Lower(s) == [i \in 1..Len(s) |-> LowerChar(s[i])]

\* s[i:] (1-based i)
From(s, i) == SubSeq(s, i, Len(s))

\* s.startswith(p, i-1): p occurs in s at position i
At(s, i, p) ==
    /\ i >= 1
    /\ i + Len(p) - 1 <= Len(s)
    /\ \A k \in 1..Len(p) : s[i + k - 1] = p[k]

\* p in s
Contains(s, p) == \E i \in 1..(Len(s) - Len(p) + 1) : At(s, i, p)

\* s.find(p, i-1) + 1 (1-based), 0 when p does not occur at or after i
Find(s, p, i) ==
    LET hits == {j \in i..(Len(s) - Len(p) + 1) : At(s, j, p)}
    IN IF hits = {} THEN 0 ELSE CHOOSE j \in hits : \A k \in hits : j <= k

\* the character at i, or -1 past either end
Ch(s, i) == IF i >= 1 /\ i <= Len(s) THEN s[i] ELSE -1

\* \b at the boundary before position i
WordBoundary(s, i) ==
    LET before == i - 1 >= 1 /\ i - 1 <= Len(s) /\ IsWord(s[i - 1])
        after  == i >= 1 /\ i <= Len(s) /\ IsWord(s[i])
    IN before # after

\* the end (exclusive) of the longest run of characters satisfying P from i
RunEnd(P(_), s, i) ==
    CHOOSE j \in i..(Len(s) + 1) :
        /\ \A k \in i..(j - 1) : P(s[k])
        /\ (j = Len(s) + 1 \/ ~P(s[j]))

\* re.sub with a pattern that never matches the empty string: scan from the
\* left; where MatchLen(s, i) > 0 there is a match, Repl(s, i) is emitted and
\* the scan resumes after it; elsewhere one character is copied.  SubRange
\* scans the positions i..hi-1 and returns <<the output, the position the
\* scan left at>>; the range is halved so that the evaluation nests only
\* log(Len(s)) deep.
RECURSIVE SubRange(_, _, _, _, _)
SubRange(MatchLen(_, _), Repl(_, _), s, i, hi) ==
    IF i >= hi THEN <<<<>>, i>>
    ELSE IF hi = i + 1
    THEN IF MatchLen(s, i) > 0
         THEN <<Repl(s, i), i + MatchLen(s, i)>>
         ELSE <<<<s[i]>>, i + 1>>
    ELSE LET left == SubRange(MatchLen, Repl, s, i, (i + hi) \div 2)
         IN LET right == SubRange(MatchLen, Repl, s, left[2], hi)
            IN <<left[1] \o right[1], right[2]>>

ReSub(MatchLen(_, _), Repl(_, _), s) ==
    SubRange(MatchLen, Repl, s, 1, Len(s) + 1)[1]

\* str.replace(old, new), old non-empty
StrReplace(s, old, new) ==
    LET M(t, i) == IF At(t, i, old) THEN Len(old) ELSE 0
        R(t, i) == new
    IN ReSub(M, R, s)

(***************************************************************************)
(* clean_text (src/cleanup_dataset.py)                                     *)
(***************************************************************************)
ELLIPSIS_PLACEHOLDER == <<60, 60, 60, 69, 76, 76, 73, 80, 83, 73, 83, 62, 62, 62>>  \* '<<<ELLIPSIS>>>'

\* text.replace(". ... ", ". <<<ELLIPSIS>>> ")
ProtectEllipsis(s) ==
    StrReplace(s, <<46, 32, 46, 46, 46, 32>>,                \* '. ... '
               <<46, 32>> \o ELLIPSIS_PLACEHOLDER \o <<32>>)

\* 1. re.sub(r'журн\.\.', 'журн.', text)
Rule1_Journal(s) ==
    StrReplace(s, <<1078, 1091, 1088, 1085, 46, 46>>,        \* 'журн..'
               <<1078, 1091, 1088, 1085, 46>>)               \* 'журн.'

\* 1. re.sub(r'([а-яё])\.\.([^.])', r'\1.\2', text)
Rule1_DoublePeriod(s) ==
    LET M(t, i) == IF /\ i + 3 <= Len(t)
                      /\ IsCyrLower(t[i])
                      /\ t[i + 1] = 46 /\ t[i + 2] = 46
                      /\ t[i + 3] # 46
                   THEN 4 ELSE 0
        R(t, i) == <<t[i], 46, t[i + 3]>>
    IN ReSub(M, R, s)

\* 2. re.sub(r'  +', ' ', text)
Rule2_DoubleSpace(s) ==
    LET IsBlank(c) == c = 32
        M(t, i) == IF i + 1 <= Len(t) /\ t[i] = 32 /\ t[i + 1] = 32
                   THEN RunEnd(IsBlank, t, i) - i ELSE 0
        R(t, i) == <<32>>
    IN ReSub(M, R, s)

\* 3. re.sub(r'\. –([А-ЯЁа-яёA-Za-z])', r'. – \1', text)
Rule3_DashLetter(s) ==
    LET M(t, i) == IF At(t, i, <<46, 32, 8211>>) /\ i + 3 <= Len(t) /\ IsLetter(t[i + 3])
                   THEN 4 ELSE 0
        R(t, i) == <<46, 32, 8211, 32, t[i + 3]>>
    IN ReSub(M, R, s)

\* 4. re.sub(r':([А-ЯЁа-яёA-Za-z])', r': \1', text)
Rule4_Colon(s) ==
    LET M(t, i) == IF t[i] = 58 /\ i + 1 <= Len(t) /\ IsLetter(t[i + 1])
                   THEN 2 ELSE 0
        R(t, i) == <<58, 32, t[i + 1]>>
    IN ReSub(M, R, s)

\* 5. re.sub(r'(\d) – (\d)', r'\1–\2', text)
Rule5_RangeBoth(s) ==
    LET M(t, i) == IF /\ i + 4 <= Len(t)
                      /\ IsDigit(t[i]) /\ At(t, i + 1, <<32, 8211, 32>>)
                      /\ IsDigit(t[i + 4])
                   THEN 5 ELSE 0
        R(t, i) == <<t[i], 8211, t[i + 4]>>
    IN ReSub(M, R, s)

\* 5. re.sub(r'(\d)– (\d)', r'\1–\2', text)
Rule5_RangeAfter(s) ==
    LET M(t, i) == IF /\ i + 3 <= Len(t)
                      /\ IsDigit(t[i]) /\ At(t, i + 1, <<8211, 32>>)
                      /\ IsDigit(t[i + 3])
                   THEN 4 ELSE 0
        R(t, i) == <<t[i], 8211, t[i + 3]>>
    IN ReSub(M, R, s)

\* 5. re.sub(r'(\d) –(\d)', r'\1–\2', text)
Rule5_RangeBefore(s) ==
    LET M(t, i) == IF /\ i + 3 <= Len(t)
                      /\ IsDigit(t[i]) /\ At(t, i + 1, <<32, 8211>>)
                      /\ IsDigit(t[i + 3])
                   THEN 4 ELSE 0
        R(t, i) == <<t[i], 8211, t[i + 3]>>
    IN ReSub(M, R, s)

\* 6. re.sub(r'С\. (\d+) ?– ?(\d+)', r'С. \1–\2', text)
\* PageRangeParts(t, i) = <<end of \1, start of \2, end of \2>> (ends
\* exclusive), or <<>> when the pattern does not match at i.
PageRangeParts(t, i) ==
    IF ~At(t, i, <<1057, 46, 32>>) THEN <<>>                  \* 'С. '
    ELSE LET a  == i + 3
             ae == RunEnd(IsDigit, t, a)
             d  == IF Ch(t, ae) = 32 /\ Ch(t, ae + 1) = 8211 THEN ae + 1 ELSE ae
             b0 == d + 1
             b  == IF Ch(t, b0) = 32 /\ IsDigit(Ch(t, b0 + 1)) THEN b0 + 1 ELSE b0
             be == RunEnd(IsDigit, t, b)
         IN IF ae > a /\ Ch(t, d) = 8211 /\ be > b THEN <<ae, b, be>> ELSE <<>>

Rule6_PageRange(s) ==
    LET M(t, i) == LET p == PageRangeParts(t, i)
                   IN IF p = <<>> THEN 0 ELSE p[3] - i
        R(t, i) == LET p == PageRangeParts(t, i)
                   IN <<1057, 46, 32>> \o SubSeq(t, i + 3, p[1] - 1)
                      \o <<8211>> \o SubSeq(t, p[2], p[3] - 1)
    IN ReSub(M, R, s)

\* 7. re.sub(r'(\w\. \w\.)([А-ЯЁA-Z])', r'\1 \2', text)
Rule7_Initials(s) ==
    LET M(t, i) == IF /\ i + 5 <= Len(t)
                      /\ IsWord(t[i]) /\ t[i + 1] = 46 /\ t[i + 2] = 32
                      /\ IsWord(t[i + 3]) /\ t[i + 4] = 46
                      /\ IsUpper(t[i + 5])
                   THEN 6 ELSE 0
        R(t, i) == SubSeq(t, i, i + 4) \o <<32, t[i + 5]>>
    IN ReSub(M, R, s)

\* 8. re.sub(r'№([А-ЯЁа-яёA-Za-z0-9])', r'№ \1', text)
Rule8_Numero(s) ==
    LET M(t, i) == IF /\ t[i] = 8470 /\ i + 1 <= Len(t)
                      /\ (IsLetter(t[i + 1]) \/ t[i + 1] \in 48..57)
                   THEN 2 ELSE 0
        R(t, i) == <<8470, 32, t[i + 1]>>
    IN ReSub(M, R, s)

\* 9. re.sub(abbr + r'(\d)', abbr + r' \1', text) for the literal abbr
AbbrevDigit(s, abbr) ==
    LET n == Len(abbr)
        M(t, i) == IF At(t, i, abbr) /\ i + n <= Len(t) /\ IsDigit(t[i + n])
                   THEN n + 1 ELSE 0
        R(t, i) == abbr \o <<32, t[i + n]>>
    IN ReSub(M, R, s)

\* 9. re.sub(r'Т\.(\d)', r'Т. \1', text)
Rule9_Volume(s) == AbbrevDigit(s, <<1058, 46>>)               \* 'Т.'
\* 9. re.sub(r'Вып\.(\d)', r'Вып. \1', text)
Rule9_Issue(s) == AbbrevDigit(s, <<1042, 1099, 1087, 46>>)    \* 'Вып.'
\* 9. re.sub(r'кн\.(\d)', r'кн. \1', text)
Rule9_Book(s) == AbbrevDigit(s, <<1082, 1085, 46>>)           \* 'кн.'

\* 10. re.sub(r' \.', '.', text)
Rule10_SpacePeriod(s) == StrReplace(s, <<32, 46>>, <<46>>)
\* 10. re.sub(r' ,', ',', text)
Rule10_SpaceComma(s) == StrReplace(s, <<32, 44>>, <<44>>)

\* 11. re.sub(r'\. –([^\s\d–])', r'. – \1', text)
Rule11_DashOther(s) ==
    LET M(t, i) == IF /\ At(t, i, <<46, 32, 8211>>) /\ i + 3 <= Len(t)
                      /\ ~IsSpace(t[i + 3]) /\ ~IsDigit(t[i + 3])
                      /\ t[i + 3] # 8211
                   THEN 4 ELSE 0
        R(t, i) == <<46, 32, 8211, 32, t[i + 3]>>
    IN ReSub(M, R, s)

\* text.replace(ELLIPSIS_PLACEHOLDER, "...")
RestoreEllipsis(s) == StrReplace(s, ELLIPSIS_PLACEHOLDER, <<46, 46, 46>>)

\* The statements of clean_text in the order of the source: the protection of
\* the ellipsis (0), rules 1-11 (1..17), the restoration (18).
LastCleanStep == 18

CleanStep(k, s) ==
    CASE k = 0  -> ProtectEllipsis(s)
      [] k = 1  -> Rule1_Journal(s)
      [] k = 2  -> Rule1_DoublePeriod(s)
      [] k = 3  -> Rule2_DoubleSpace(s)
      [] k = 4  -> Rule3_DashLetter(s)
      [] k = 5  -> Rule4_Colon(s)
      [] k = 6  -> Rule5_RangeBoth(s)
      [] k = 7  -> Rule5_RangeAfter(s)
      [] k = 8  -> Rule5_RangeBefore(s)
      [] k = 9  -> Rule6_PageRange(s)
      [] k = 10 -> Rule7_Initials(s)
      [] k = 11 -> Rule8_Numero(s)
      [] k = 12 -> Rule9_Volume(s)
      [] k = 13 -> Rule9_Issue(s)
      [] k = 14 -> Rule9_Book(s)
      [] k = 15 -> Rule10_SpacePeriod(s)
      [] k = 16 -> Rule10_SpaceComma(s)
      [] k = 17 -> Rule11_DashOther(s)
      [] k = 18 -> RestoreEllipsis(s)

\* statements k..LastCleanStep applied to s, each to the result of the one
\* before (the result of a statement is computed before the next is entered)
RECURSIVE CleanFrom(_, _)
CleanFrom(s, k) ==
    IF k > LastCleanStep THEN s
    ELSE CHOOSE out \in {CleanFrom(v, k + 1) : v \in {CleanStep(k, s)}} : TRUE

clean_text(s) == CleanFrom(s, 0)

(***************************************************************************)
(* GOSTFormatterAgent._detect_document_type (src/gost_formatter_agent.py)  *)
(***************************************************************************)
\* where the literal lit and the whitespace after it (\s*) end, when lit
\* stands at i; 0 when it does not
LitWs(s, i, lit) ==
    IF At(s, i, lit) THEN RunEnd(IsSpace, s, i + Len(lit)) ELSE 0

\* '[звукозапись]' in text_lower or '[видеозапись]' in text_lower
IsMultimedia(low) ==
    \/ Contains(low, <<91, 1079, 1074, 1091, 1082, 1086, 1079, 1072, 1087, 1080, 1089, 1100, 93>>)      \* '[звукозапись]'
    \/ Contains(low, <<91, 1074, 1080, 1076, 1077, 1086, 1079, 1072, 1087, 1080, 1089, 1100, 93>>)      \* '[видеозапись]'

\* '[изоматериал]' in text_lower or 'плакат]' in text_lower
IsVisualMaterial(low) ==
    \/ Contains(low, <<91, 1080, 1079, 1086, 1084, 1072, 1090, 1077, 1088, 1080, 1072, 1083, 93>>)      \* '[изоматериал]'
    \/ Contains(low, <<1087, 1083, 1072, 1082, 1072, 1090, 93>>)            \* 'плакат]'

\* '[ноты]' in text_lower
IsMusicScore(low) == Contains(low, <<91, 1085, 1086, 1090, 1099, 93>>)      \* '[ноты]'

\* '[карт' in text_lower
IsMap(low) == Contains(low, <<91, 1082, 1072, 1088, 1090>>)               \* '[карт'

\* re.search(r'пат\.\s*[A-Z]{2}|а\.\s*с\.\s*[A-Z]{2}|полез\.\s*модель', text)
IsPatent(s) ==
    \E i \in 1..Len(s) :
        \/ LET e == LitWs(s, i, <<1087, 1072, 1090, 46>>)                       \* 'пат.'
           IN e > 0 /\ IsLatUpper(Ch(s, e)) /\ IsLatUpper(Ch(s, e + 1))
        \/ LET c == LitWs(s, i, <<1072, 46>>)                         \* 'а.'
           IN c > 0 /\ LET e == LitWs(s, c, <<1089, 46>>)             \* 'с.'
                       IN e > 0 /\ IsLatUpper(Ch(s, e)) /\ IsLatUpper(Ch(s, e + 1))
        \/ LET e == LitWs(s, i, <<1087, 1086, 1083, 1077, 1079, 46>>)                     \* 'полез.'
           IN e > 0 /\ At(s, e, <<1084, 1086, 1076, 1077, 1083, 1100>>)                     \* 'модель'

\* re.search(r'дис\.\s*\.{3}|дыс\.\s*\.{3}', text_lower)
IsDissertation(low) ==
    \E i \in 1..Len(low) :
        \/ LET e == LitWs(low, i, <<1076, 1080, 1089, 46>>)                     \* 'дис.'
           IN e > 0 /\ At(low, e, <<46, 46, 46>>)
        \/ LET e == LitWs(low, i, <<1076, 1099, 1089, 46>>)                     \* 'дыс.'
           IN e > 0 /\ At(low, e, <<46, 46, 46>>)

\* 'автореф' in text_lower
IsAbstract(low) == Contains(low, <<1072, 1074, 1090, 1086, 1088, 1077, 1092>>)       \* 'автореф'

\* 'препринт' in text_lower
IsPreprint(low) == Contains(low, <<1087, 1088, 1077, 1087, 1088, 1080, 1085, 1090>>)      \* 'препринт'

\* re.search(r'гост\s*\d|стб\s*\d|ткп\s*\d|тр\s*тс\s*\d', text_lower)
IsStandard(low) ==
    \E i \in 1..Len(low) :
        \/ IsDigit(Ch(low, LitWs(low, i, <<1075, 1086, 1089, 1090>>)))            \* 'гост'
        \/ IsDigit(Ch(low, LitWs(low, i, <<1089, 1090, 1073>>)))             \* 'стб'
        \/ IsDigit(Ch(low, LitWs(low, i, <<1090, 1082, 1087>>)))             \* 'ткп'
        \/ LET c == LitWs(low, i, <<1090, 1088>>)                       \* 'тр'
           IN c > 0 /\ IsDigit(Ch(low, LitWs(low, c, <<1090, 1089>>)))  \* 'тс'

\* re.search(r'\b' + word + r'\b', text_lower)
HasWord(low, word) ==
    \E i \in 1..Len(low) :
        At(low, i, word) /\ WordBoundary(low, i) /\ WordBoundary(low, i + Len(word))

\* 'конституц' in text_lower or re.search(r'\bкодекс\b', text_lower)
IsLawCode(low) ==
    \/ Contains(low, <<1082, 1086, 1085, 1089, 1090, 1080, 1090, 1091, 1094>>)          \* 'конституц'
    \/ HasWord(low, <<1082, 1086, 1076, 1077, 1082, 1089>>)              \* 'кодекс'

\* re.search(r'\bзакон\b|\bуказ\b|\bпостановлени|\bдекрет\b|приказ\s+\w+\.',
\*           text_lower)
IsLawAct(low) ==
    \/ HasWord(low, <<1079, 1072, 1082, 1086, 1085>>)               \* 'закон'
    \/ HasWord(low, <<1091, 1082, 1072, 1079>>)                \* 'указ'
    \/ HasWord(low, <<1076, 1077, 1082, 1088, 1077, 1090>>)              \* 'декрет'
    \/ \E i \in 1..Len(low) :
           \/ At(low, i, <<1087, 1086, 1089, 1090, 1072, 1085, 1086, 1074, 1083, 1077, 1085, 1080>>) /\ WordBoundary(low, i)   \* 'постановлени'
           \/ LET e == LitWs(low, i, <<1087, 1088, 1080, 1082, 1072, 1079>>)                     \* 'приказ'
              IN /\ e > i + 6
                 /\ RunEnd(IsWord, low, e) > e
                 /\ Ch(low, RunEnd(IsWord, low, e)) = 46

\* re.search(first + r'.*' + second, text_lower): second after first with no
\* line break between them
HasBoth(low, first, second) ==
    \E i \in 1..Len(low) :
        /\ At(low, i, first)
        /\ \E j \in (i + Len(first))..Len(low) :
               /\ At(low, j, second)
               /\ \A k \in (i + Len(first))..(j - 1) : low[k] # 10

\* re.search(r'матер.*конф|тезис.*докл|чтения\s*:', text_lower)
IsConference(low) ==
    \/ HasBoth(low, <<1084, 1072, 1090, 1077, 1088>>, <<1082, 1086, 1085, 1092>>)       \* 'матер', 'конф'
    \/ HasBoth(low, <<1090, 1077, 1079, 1080, 1089>>, <<1076, 1086, 1082, 1083>>)       \* 'тезис', 'докл'
    \/ \E i \in 1..Len(low) : Ch(low, LitWs(low, i, <<1095, 1090, 1077, 1085, 1080, 1103>>)) = 58   \* 'чтения'

\* re.search(r'сб\.\s*(науч\.|ст\.|тр\.)', text_lower)
IsCollection(low) ==
    \E i \in 1..Len(low) :
        LET e == LitWs(low, i, <<1089, 1073, 46>>)                         \* 'сб.'
        IN e > 0 /\ \/ At(low, e, <<1085, 1072, 1091, 1095, 46>>)                    \* 'науч.'
                    \/ At(low, e, <<1089, 1090, 46>>)                      \* 'ст.'
                    \/ At(low, e, <<1090, 1088, 46>>)                      \* 'тр.'

\* ' // ' in text
HasSlashes(s) == Contains(s, <<32, 47, 47, 32>>)               \* ' // '

\* text.split(' // ')[1] if len(text.split(' // ')) > 1 else '': the text
\* between the first ' // ' and the second (or the end)
AfterSlashes(s) ==
    LET first == Find(s, <<32, 47, 47, 32>>, 1)
    IN IF first = 0 THEN <<>>
       ELSE LET second == Find(s, <<32, 47, 47, 32>>, first + 4)
            IN SubSeq(s, first + 4, IF second = 0 THEN Len(s) ELSE second - 1)

\* re.search(r'[ТT]\.\s*\d|№\s*\d', after_slashes)
HasVolumeOrIssue(after) ==
    \E i \in 1..Len(after) :
        \/ IsDigit(Ch(after, LitWs(after, i, <<1058, 46>>)))          \* 'Т.' (Cyrillic)
        \/ IsDigit(Ch(after, LitWs(after, i, <<84, 46>>)))          \* 'T.' (Latin)
        \/ IsDigit(Ch(after, LitWs(after, i, <<8470>>)))           \* '№'

\* re.search(r'\.by\b|газет', after_slashes.lower())
HasNewspaper(afterlow) ==
    \/ Contains(afterlow, <<1075, 1072, 1079, 1077, 1090>>)         \* 'газет'
    \/ \E i \in 1..Len(afterlow) :
           At(afterlow, i, <<46, 98, 121>>) /\ WordBoundary(afterlow, i + 3)   \* '.by'

\* '[и др.]' in text or '[et al.]' in text
HasEtAl(s) ==
    \/ Contains(s, <<91, 1080, 32, 1076, 1088, 46, 93>>)              \* '[и др.]'
    \/ Contains(s, <<91, 101, 116, 32, 97, 108, 46, 93>>)             \* '[et al.]'

\* set(re.findall(r'([А-ЯЁA-Z][а-яёa-z]+),\s+[А-ЯЁA-Z]\.', text)): the
\* surnames that stand before a comma, whitespace and an initial
AuthorSurnames(s) ==
    {SubSeq(s, i, RunEnd(IsLower, s, i + 1) - 1) :
        i \in {j \in 1..Len(s) :
                 /\ IsUpper(s[j])
                 /\ RunEnd(IsLower, s, j + 1) > j + 1
                 /\ Ch(s, RunEnd(IsLower, s, j + 1)) = 44
                 /\ RunEnd(IsSpace, s, RunEnd(IsLower, s, j + 1) + 1)
                        > RunEnd(IsLower, s, j + 1) + 1
                 /\ IsUpper(Ch(s, RunEnd(IsSpace, s, RunEnd(IsLower, s, j + 1) + 1)))
                 /\ Ch(s, RunEnd(IsSpace, s, RunEnd(IsLower, s, j + 1) + 1) + 1) = 46}}

\* '[электронный ресурс]' in text_lower
IsElectronic(low) == Contains(low, <<91, 1101, 1083, 1077, 1082, 1090, 1088, 1086, 1085, 1085, 1099, 1081, 32, 1088, 1077, 1089, 1091, 1088, 1089, 93>>)   \* '[электронный ресурс]'

\* the classifier with the book checks made before the periodical checks
detect_BooksBeforePeriodicals(s) ==
    LET text_lower == Lower(s)
        after_slashes == AfterSlashes(s)
        authors == Cardinality(AuthorSurnames(s))
    IN  \* media
        IF IsMultimedia(text_lower) THEN "multimedia"
        ELSE IF IsVisualMaterial(text_lower) THEN "visual_material"
        ELSE IF IsMusicScore(text_lower) THEN "music_score"
        ELSE IF IsMap(text_lower) THEN "map"
        \* scientific works
        ELSE IF IsPatent(s) THEN "patent"
        ELSE IF IsDissertation(text_lower) THEN "dissertation"
        ELSE IF IsAbstract(text_lower) THEN "abstract"
        ELSE IF IsPreprint(text_lower) THEN "preprint"
        \* standards
        ELSE IF IsStandard(text_lower) THEN "standard"
        \* legislation
        ELSE IF IsLawCode(text_lower) THEN "law"
        ELSE IF IsLawAct(text_lower) THEN "law"
        \* conferences and collections
        ELSE IF IsConference(text_lower) THEN "conference"
        ELSE IF IsCollection(text_lower) THEN "collection_article"
        \* books
        ELSE IF HasEtAl(s) THEN "book_4plus_authors"
        ELSE IF authors >= 4 THEN "book_4plus_authors"
        ELSE IF authors >= 1 THEN "book_1_3_authors"
        \* periodicals
        ELSE IF HasSlashes(s) /\ HasVolumeOrIssue(after_slashes)
             THEN "journal_article"
        ELSE IF HasSlashes(s) /\ HasNewspaper(Lower(after_slashes))
             THEN "newspaper_article"
        ELSE IF IsElectronic(text_lower) THEN "electronic_resource"
        ELSE "unknown"

\* the classifier without its last return
detect_NoFallback(s) ==
    LET text_lower == Lower(s)
        after_slashes == AfterSlashes(s)
        authors == Cardinality(AuthorSurnames(s))
    IN  \* media
        IF IsMultimedia(text_lower) THEN "multimedia"
        ELSE IF IsVisualMaterial(text_lower) THEN "visual_material"
        ELSE IF IsMusicScore(text_lower) THEN "music_score"
        ELSE IF IsMap(text_lower) THEN "map"
        \* scientific works
        ELSE IF IsPatent(s) THEN "patent"
        ELSE IF IsDissertation(text_lower) THEN "dissertation"
        ELSE IF IsAbstract(text_lower) THEN "abstract"
        ELSE IF IsPreprint(text_lower) THEN "preprint"
        \* standards
        ELSE IF IsStandard(text_lower) THEN "standard"
        \* legislation
        ELSE IF IsLawCode(text_lower) THEN "law"
        ELSE IF IsLawAct(text_lower) THEN "law"
        \* conferences and collections
        ELSE IF IsConference(text_lower) THEN "conference"
        ELSE IF IsCollection(text_lower) THEN "collection_article"
        \* periodicals
        ELSE IF HasSlashes(s) /\ HasVolumeOrIssue(after_slashes)
             THEN "journal_article"
        ELSE IF HasSlashes(s) /\ HasNewspaper(Lower(after_slashes))
             THEN "newspaper_article"
        \* books
        ELSE IF HasEtAl(s) THEN "book_4plus_authors"
        ELSE IF authors >= 4 THEN "book_4plus_authors"
        ELSE IF authors >= 1 THEN "book_1_3_authors"
        ELSE IF IsElectronic(text_lower) THEN "electronic_resource"
        ELSE NoTag

\* GOSTFormatterAgent._detect_document_type
_detect_document_type(s) ==
    LET text_lower == Lower(s)
        after_slashes == AfterSlashes(s)
        authors == Cardinality(AuthorSurnames(s))
    IN  \* media
        IF IsMultimedia(text_lower) THEN "multimedia"
        ELSE IF IsVisualMaterial(text_lower) THEN "visual_material"
        ELSE IF IsMusicScore(text_lower) THEN "music_score"
        ELSE IF IsMap(text_lower) THEN "map"
        \* scientific works
        ELSE IF IsPatent(s) THEN "patent"
        ELSE IF IsDissertation(text_lower) THEN "dissertation"
        ELSE IF IsAbstract(text_lower) THEN "abstract"
        ELSE IF IsPreprint(text_lower) THEN "preprint"
        \* standards
        ELSE IF IsStandard(text_lower) THEN "standard"
        \* legislation
        ELSE IF IsLawCode(text_lower) THEN "law"
        ELSE IF IsLawAct(text_lower) THEN "law"
        \* conferences and collections
        ELSE IF IsConference(text_lower) THEN "conference"
        ELSE IF IsCollection(text_lower) THEN "collection_article"
        \* periodicals
        ELSE IF HasSlashes(s) /\ HasVolumeOrIssue(after_slashes)
             THEN "journal_article"
        ELSE IF HasSlashes(s) /\ HasNewspaper(Lower(after_slashes))
             THEN "newspaper_article"
        \* books
        ELSE IF HasEtAl(s) THEN "book_4plus_authors"
        ELSE IF authors >= 4 THEN "book_4plus_authors"
        ELSE IF authors >= 1 THEN "book_1_3_authors"
        ELSE IF IsElectronic(text_lower) THEN "electronic_resource"
        ELSE "unknown"


(***************************************************************************)
(* VAKParser (src/vak_parser.py): the field extractors                     *)
(***************************************************************************)
\* the least element of a set of positions, 0 for the empty set: where
\* re.search finds its match
FirstOf(S) == IF S = {} THEN 0 ELSE CHOOSE i \in S : \A j \in S : i <= j

\* s[:n]
Take(s, n) == IF Len(s) <= n THEN s ELSE SubSeq(s, 1, n)

\* str.strip()
Strip(s) ==
    SubSeq(s, RunEnd(IsSpace, s, 1),
           CHOOSE j \in 0..Len(s) :
               /\ j = 0 \/ ~IsSpace(s[j])
               /\ \A k \in (j + 1)..Len(s) : IsSpace(s[k]))

\* str.rstrip('.')
RStripPeriods(s) ==
    SubSeq(s, 1, CHOOSE j \in 0..Len(s) :
                     /\ j = 0 \/ s[j] # 46
                     /\ \A k \in (j + 1)..Len(s) : s[k] = 46)

\* re.findall with a pattern that never matches the empty string: the scan
\* of ReSub, collecting Item(s, i) at every match.  FindRange scans the
\* positions i..hi-1 and returns <<the items, the position the scan left at>>.
RECURSIVE FindRange(_, _, _, _, _)
FindRange(MatchLen(_, _), Item(_, _), s, i, hi) ==
    IF i >= hi THEN <<<<>>, i>>
    ELSE IF hi = i + 1
    THEN IF MatchLen(s, i) > 0
         THEN <<<<Item(s, i)>>, i + MatchLen(s, i)>>
         ELSE <<<<>>, i + 1>>
    ELSE LET left == FindRange(MatchLen, Item, s, i, (i + hi) \div 2)
         IN LET right == FindRange(MatchLen, Item, s, left[2], hi)
            IN <<left[1] \o right[1], right[2]>>

FindAll(MatchLen(_, _), Item(_, _), s) ==
    FindRange(MatchLen, Item, s, 1, Len(s) + 1)[1]

\* [А-ЯЁA-Z][а-яёa-z]+ at i: where it ends (exclusive), 0 when it does not match
FamilyEnd(s, i) ==
    IF IsUpper(Ch(s, i)) /\ IsLower(Ch(s, i + 1))
    THEN RunEnd(IsLower, s, i + 1)
    ELSE 0

\* [А-ЯЁA-Z]\.\s*[А-ЯЁA-Z]?\.? at q, every part as long as it can be: where
\* it ends (exclusive), 0 when it does not match
InitialsEnd(s, q) ==
    IF IsUpper(Ch(s, q)) /\ Ch(s, q + 1) = 46
    THEN LET w == RunEnd(IsSpace, s, q + 2)
             u == IF IsUpper(Ch(s, w)) THEN w + 1 ELSE w
         IN IF Ch(s, u) = 46 THEN u + 1 ELSE u
    ELSE 0

\* ([А-ЯЁA-Z][а-яёa-z]+),\s*([А-ЯЁA-Z]\.\s*[А-ЯЁA-Z]?\.?) at i: where it
\* ends (exclusive), 0 when it does not match
FamilyFirstEnd(s, i) ==
    LET e == FamilyEnd(s, i)
    IN IF e > 0 /\ Ch(s, e) = 44
       THEN InitialsEnd(s, RunEnd(IsSpace, s, e + 1))
       ELSE 0

\* f"{family}, {initials.strip()}" of the match at i
FamilyFirstAuthor(s, i) ==
    LET e == FamilyEnd(s, i)
    IN SubSeq(s, i, e - 1) \o <<44, 32>>
           \o Strip(SubSeq(s, RunEnd(IsSpace, s, e + 1), FamilyFirstEnd(s, i) - 1))

\* ([А-ЯЁA-Z]\.\s*[А-ЯЁA-Z]?\.?)\s+([А-ЯЁA-Z][а-яёa-z]+) at i:
\* <<where the initials end (exclusive), where the family name starts>>, or
\* <<0, 0>> when it does not match.  The initials take the second letter and
\* its period when whitespace and a family name follow them; failing that
\* they give back what they took, and end one whitespace short of the name.
InitialsFirstParts(s, i) ==
    IF ~(IsUpper(Ch(s, i)) /\ Ch(s, i + 1) = 46) THEN <<0, 0>>
    ELSE LET q == RunEnd(IsSpace, s, i + 2)
         IN IF /\ IsUpper(Ch(s, q)) /\ Ch(s, q + 1) = 46 /\ IsSpace(Ch(s, q + 2))
               /\ FamilyEnd(s, RunEnd(IsSpace, s, q + 2)) > 0
            THEN <<q + 2, RunEnd(IsSpace, s, q + 2)>>
            ELSE IF /\ IsUpper(Ch(s, q)) \/ Ch(s, q) = 46
                    /\ IsSpace(Ch(s, q + 1))
                    /\ FamilyEnd(s, RunEnd(IsSpace, s, q + 1)) > 0
            THEN <<q + 1, RunEnd(IsSpace, s, q + 1)>>
            ELSE IF q > i + 2 /\ FamilyEnd(s, q) > 0
            THEN <<q - 1, q>>
            ELSE <<0, 0>>

\* f"{family}, {initials.strip()}" of the match at i
InitialsFirstAuthor(s, i) ==
    LET parts == InitialsFirstParts(s, i)
    IN SubSeq(s, parts[2], FamilyEnd(s, parts[2]) - 1) \o <<44, 32>>
           \o Strip(SubSeq(s, i, parts[1] - 1))

parse_authors(s) ==
    LET M1(t, i) == IF FamilyFirstEnd(t, i) > 0 THEN FamilyFirstEnd(t, i) - i ELSE 0
        M2(t, i) == IF InitialsFirstParts(t, i)[2] > 0
                    THEN FamilyEnd(t, InitialsFirstParts(t, i)[2]) - i
                    ELSE 0
        authors == FindAll(M1, FamilyFirstAuthor, s)
    IN IF authors # <<>> THEN Take(authors, 10)
       ELSE Take(Take(FindAll(M2, InitialsFirstAuthor, s), 4), 10)

\* (19[5-9]\d|20[0-2]\d) at i
YearAt(s, i) ==
    \/ At(s, i, <<49, 57>>) /\ Ch(s, i + 2) \in 53..57 /\ IsDigit(Ch(s, i + 3))
    \/ At(s, i, <<50, 48>>) /\ Ch(s, i + 2) \in 48..50 /\ IsDigit(Ch(s, i + 3))

\* int() of the four digits at i
YearValue(s, i) ==
    (s[i] - 48) * 1000 + (s[i + 1] - 48) * 100 + (s[i + 2] - 48) * 10 + (s[i + 3] - 48)

\* [,–—]\s*(19[5-9]\d|20[0-2]\d)\s*[.–—] at i
PublicationYearAt(s, i) ==
    /\ s[i] \in {44, 8211, 8212}
    /\ YearAt(s, RunEnd(IsSpace, s, i + 1))
    /\ Ch(s, RunEnd(IsSpace, s, RunEnd(IsSpace, s, i + 1) + 4)) \in {46, 8211, 8212}

parse_year_AnyFirst(s) ==
    LET any == FirstOf({i \in 1..Len(s) :
                   YearAt(s, i) /\ WordBoundary(s, i) /\ WordBoundary(s, i + 4)})
    IN IF any > 0 THEN Some(YearValue(s, any)) ELSE None

parse_year(s) ==
    LET strict == FirstOf({i \in 1..Len(s) : PublicationYearAt(s, i)})
        any == FirstOf({i \in 1..Len(s) :
                   YearAt(s, i) /\ WordBoundary(s, i) /\ WordBoundary(s, i + 4)})
    IN IF strict > 0 THEN Some(YearValue(s, RunEnd(IsSpace, s, strict + 1)))
       ELSE IF any > 0 THEN Some(YearValue(s, any))
       ELSE None

\* [А-ЯЁA-Z]\.\s+([^/]+)\s*/ at i: an initial's capital and period,
\* whitespace, and a slash further on with at least one character between
\* the first whitespace and the slash
TitleAt(s, i) ==
    /\ IsUpper(s[i]) /\ Ch(s, i + 1) = 46 /\ IsSpace(Ch(s, i + 2))
    /\ Find(s, <<47>>, i + 3) >= i + 4

parse_title(s) ==
    LET start == FirstOf({i \in 1..Len(s) : TitleAt(s, i)})
        colon == Find(s, <<58>>, 1)
    IN IF start > 0 THEN Strip(SubSeq(s, start + 3, Find(s, <<47>>, start + 3) - 1))
       ELSE IF colon > 1 THEN Strip(SubSeq(s, 1, colon - 1))
       ELSE <<>>

\* [^\s<>"]
IsUrlChar(c) == c >= 0 /\ ~IsSpace(c) /\ c \notin {60, 62, 34}

\* https?:// at i: where it ends (exclusive), 0 when it does not match
SchemeEnd(s, i) ==
    IF At(s, i, <<104, 116, 116, 112, 58, 47, 47>>) THEN i + 7            \* 'http://'
    ELSE IF At(s, i, <<104, 116, 116, 112, 115, 58, 47, 47>>) THEN i + 8  \* 'https://'
    ELSE 0

parse_url(s) ==
    LET start == FirstOf({i \in 1..Len(s) :
                     SchemeEnd(s, i) > 0 /\ IsUrlChar(Ch(s, SchemeEnd(s, i)))})
    IN IF start > 0
       THEN Some(RStripPeriods(SubSeq(s, start, RunEnd(IsUrlChar, s, SchemeEnd(s, start)) - 1)))
       ELSE None

\* [:\s]
IsColonOrSpace(c) == c = 58 \/ IsSpace(c)

\* \d{2}\.\d{2}\.\d{4} at i
DateAt(s, i) ==
    /\ IsDigit(Ch(s, i)) /\ IsDigit(Ch(s, i + 1)) /\ Ch(s, i + 2) = 46
    /\ IsDigit(Ch(s, i + 3)) /\ IsDigit(Ch(s, i + 4)) /\ Ch(s, i + 5) = 46
    /\ IsDigit(Ch(s, i + 6)) /\ IsDigit(Ch(s, i + 7))
    /\ IsDigit(Ch(s, i + 8)) /\ IsDigit(Ch(s, i + 9))

\* дата\s+обращения[:\s]* at i, letters in either case (low is the lowered
\* text): where it ends (exclusive), 0 when it does not match
AccessPrefixEnd(low, i) ==
    LET e == LitWs(low, i, <<1076, 1072, 1090, 1072>>)                          \* 'дата'
    IN IF e > i + 4 /\ At(low, e, <<1086, 1073, 1088, 1072, 1097, 1077, 1085, 1080, 1103>>)              \* 'обращения'
       THEN RunEnd(IsColonOrSpace, low, e + 9)
       ELSE 0

parse_access_date(s) ==
    LET low == Lower(s)
        start == FirstOf({i \in 1..Len(s) :
                     AccessPrefixEnd(low, i) > 0 /\ DateAt(s, AccessPrefixEnd(low, i))})
    IN IF start > 0
       THEN Some(SubSeq(s, AccessPrefixEnd(low, start), AccessPrefixEnd(low, start) + 9))
       ELSE None


\* [–—]
IsDash(c) == c = 8211 \/ c = 8212

\* [–—]\s*(\d+)\s*[сpсc]\. at i: a dash, a page count, 'с.', 'p.' or 'c.'
PageCountAt(s, i) ==
    /\ IsDash(s[i])
    /\ IsDigit(Ch(s, RunEnd(IsSpace, s, i + 1)))
    /\ LET e == RunEnd(IsSpace, s, RunEnd(IsDigit, s, RunEnd(IsSpace, s, i + 1)))
       IN Ch(s, e) \in {1089, 112, 99} /\ Ch(s, e + 1) = 46

\* \d+[–—-]\d+ at d: where it ends (exclusive), 0 when it does not match
PageSpanEnd(s, d) ==
    IF /\ IsDigit(Ch(s, d))
       /\ Ch(s, RunEnd(IsDigit, s, d)) \in {8211, 8212, 45}
       /\ IsDigit(Ch(s, RunEnd(IsDigit, s, d) + 1))
    THEN RunEnd(IsDigit, s, RunEnd(IsDigit, s, d) + 1)
    ELSE 0

\* [СCС]\.\s*(\d+[–—-]\d+) at i
PageSpanAt(s, i) ==
    /\ s[i] \in {1057, 67} /\ Ch(s, i + 1) = 46
    /\ PageSpanEnd(s, RunEnd(IsSpace, s, i + 2)) > 0

parse_pages(s) ==
    LET count == FirstOf({i \in 1..Len(s) : PageCountAt(s, i)})
        span == FirstOf({i \in 1..Len(s) : PageSpanAt(s, i)})
    IN IF count > 0
       THEN Some(SubSeq(s, RunEnd(IsSpace, s, count + 1),
                        RunEnd(IsDigit, s, RunEnd(IsSpace, s, count + 1)) - 1))
       ELSE IF span > 0
       THEN Some(SubSeq(s, RunEnd(IsSpace, s, span + 2),
                        PageSpanEnd(s, RunEnd(IsSpace, s, span + 2)) - 1))
       ELSE None

\* [–—]\s*[А-ЯЁA-Za-zа-яё]+\s*: at i: where it ends (exclusive), 0 when it
\* does not match
PlaceColonEnd(s, i) ==
    IF IsDash(s[i]) /\ IsLetter(Ch(s, RunEnd(IsSpace, s, i + 1)))
    THEN LET c == RunEnd(IsSpace, s, RunEnd(IsLetter, s, RunEnd(IsSpace, s, i + 1)))
         IN IF Ch(s, c) = 58 THEN c + 1 ELSE 0
    ELSE 0

\* [–—]\s*[А-ЯЁA-Za-zа-яё]+\s*:\s*([^,]+?), at i: after the colon at least
\* one character, whitespace or not, stands before the first comma
PublisherAt(s, i) ==
    /\ PlaceColonEnd(s, i) > 0
    /\ Find(s, <<44>>, PlaceColonEnd(s, i)) > PlaceColonEnd(s, i)

parse_publisher(s) ==
    LET start == FirstOf({i \in 1..Len(s) : PublisherAt(s, i)})
    IN IF start > 0
       THEN Some(Strip(SubSeq(s, PlaceColonEnd(s, start),
                              Find(s, <<44>>, PlaceColonEnd(s, start)) - 1)))
       ELSE None

\* [А-ЯЁ][а-яё]+ at i: where it ends (exclusive), 0 when it does not match
CityNameEnd(s, i) ==
    IF IsCyrUpper(Ch(s, i)) /\ IsCyrLower(Ch(s, i + 1))
    THEN RunEnd(IsCyrLower, s, i + 1)
    ELSE 0

\* [А-ЯЁ][а-яё]+(?:\s*;\s*[А-ЯЁ][а-яё]+)?\s*: at n: where the name, or the
\* two names, end (exclusive), 0 when it does not match
CityEnd(s, n) ==
    LET e == CityNameEnd(s, n)
    IN IF e = 0 THEN 0
       ELSE LET t == RunEnd(IsSpace, s, e)
            IN IF Ch(s, t) = 58 THEN e
               ELSE IF Ch(s, t) = 59
               THEN LET e2 == CityNameEnd(s, RunEnd(IsSpace, s, t + 1))
                    IN IF e2 > 0 /\ Ch(s, RunEnd(IsSpace, s, e2)) = 58 THEN e2 ELSE 0
               ELSE 0

\* [–—]\s*([А-ЯЁ][а-яё]+(?:\s*;\s*[А-ЯЁ][а-яё]+)?)\s*: at i
CityAt(s, i) == IsDash(s[i]) /\ CityEnd(s, RunEnd(IsSpace, s, i + 1)) > 0

parse_city(s) ==
    LET start == FirstOf({i \in 1..Len(s) : CityAt(s, i)})
    IN IF start > 0
       THEN Some(Strip(SubSeq(s, RunEnd(IsSpace, s, start + 1),
                              CityEnd(s, RunEnd(IsSpace, s, start + 1)) - 1)))
       ELSE None

\* [.–—]
IsJournalEnd(c) == c = 46 \/ IsDash(c)

\* where the first of '.', '–', '—' stands at or after i, 0 when none does
JournalEndFrom(s, i) == FirstOf({j \in i..Len(s) : IsJournalEnd(s[j])})

\* //\s*([^.–—]+)[.–—] at i: after the slashes at least one character,
\* whitespace or not, stands before the first '.', '–' or '—'
JournalAt(s, i) ==
    At(s, i, <<47, 47>>) /\ JournalEndFrom(s, i + 2) > i + 2

parse_journal(s) ==
    LET start == FirstOf({i \in 1..Len(s) : JournalAt(s, i)})
    IN IF start > 0
       THEN Some(Strip(SubSeq(s, start + 2, JournalEndFrom(s, start + 2) - 1)))
       ELSE None

\* \.?\s*(\d+) at i: where the digits start, 0 when it does not match
NumberStart(s, i) ==
    LET d == RunEnd(IsSpace, s, IF Ch(s, i) = 46 THEN i + 1 ELSE i)
    IN IF IsDigit(Ch(s, d)) THEN d ELSE 0

\* [ТT]\.?\s*(\d+) at i, letters in either case (low is the lowered text):
\* where the digits start, 0 when it does not match
VolumeStart(low, i) ==
    IF low[i] \in {1090, 116} THEN NumberStart(low, i + 1) ELSE 0

\* [№N][оo]?\.?\s*(\d+) at i, letters in either case: where the digits
\* start, 0 when it does not match
IssueStart(low, i) ==
    IF low[i] \in {8470, 110}
    THEN NumberStart(low, IF Ch(low, i + 1) \in {1086, 111} THEN i + 2 ELSE i + 1)
    ELSE 0

\* (volume, issue)
parse_volume_issue(s) ==
    LET low == Lower(s)
        vol == FirstOf({i \in 1..Len(s) : VolumeStart(low, i) > 0})
        iss == FirstOf({i \in 1..Len(s) : IssueStart(low, i) > 0})
    IN << IF vol > 0
          THEN Some(SubSeq(s, VolumeStart(low, vol),
                           RunEnd(IsDigit, s, VolumeStart(low, vol)) - 1))
          ELSE None,
          IF iss > 0
          THEN Some(SubSeq(s, IssueStart(low, iss),
                           RunEnd(IsDigit, s, IssueStart(low, iss)) - 1))
          ELSE None >>

\* [^\s]
IsNonSpace(c) == c >= 0 /\ ~IsSpace(c)

\* 10\.\d{4,}/[^\s]+ at i: where it ends (exclusive), 0 when it does not match
DoiEnd(s, i) ==
    IF /\ At(s, i, <<49, 48, 46>>)                  \* '10.'
       /\ RunEnd(IsDigit, s, i + 3) >= i + 7
       /\ Ch(s, RunEnd(IsDigit, s, i + 3)) = 47
       /\ IsNonSpace(Ch(s, RunEnd(IsDigit, s, i + 3) + 1))
    THEN RunEnd(IsNonSpace, s, RunEnd(IsDigit, s, i + 3) + 1)
    ELSE 0

parse_doi(s) ==
    LET start == FirstOf({i \in 1..Len(s) : DoiEnd(s, i) > 0})
    IN IF start > 0
       THEN Some(RStripPeriods(SubSeq(s, start, DoiEnd(s, start) - 1)))
       ELSE None


(***************************************************************************)
(* VAKParser.parse_example                                                 *)
(***************************************************************************)
\* The confidence is a binary64 number.  <<h, u>> stands for the double that
\* lies u units in the last place above the double nearest to h/100; of the
\* subtractions parse_example makes, only 0.8 - 0.1 is inexact
\* (0.7000000000000001).
FloatSub(c, d) ==
    IF c = <<80, 0>> /\ d = 10 THEN <<70, 1>> ELSE <<c[1] - d, c[2]>>

\* max(a, b) of two such numbers
FloatMax(a, b) ==
    IF a[1] > b[1] \/ (a[1] = b[1] /\ a[2] >= b[2]) THEN a ELSE b

\* round(100 * c): the confidence as a percentage
Percent(c) == c[1]

\* confidence = 1.0, less 0.2 without authors, 0.3 without a title, 0.1
\* without a year
Confidence_TitleFree(authors, title, year) ==
    FloatSub(IF authors = <<>> THEN FloatSub(<<100, 0>>, 20) ELSE <<100, 0>>,
             IF year = None THEN 10 ELSE 0)

Confidence(authors, title, year) ==
    LET a == IF authors = <<>> THEN FloatSub(<<100, 0>>, 20) ELSE <<100, 0>>
        t == IF title = <<>> THEN FloatSub(a, 30) ELSE a
    IN IF year = None THEN FloatSub(t, 10) ELSE t

\* an exception that leaves a function, told from every value the function
\* returns (None, Some(v), an id) by its length
Raise(exception) == <<"raise", exception, "">>
IsRaise(v) == Len(v) = 3 /\ v[1] = "raise"

\* generate_id: the md5 digest of f"{text[:50]}_{index}", kept as what is
\* digested.  hash_input.encode() raises UnicodeEncodeError when text[:50]
\* holds a surrogate (U+D800..U+DFFF), which UTF-8 cannot encode.
generate_id(s, index) ==
    IF \E k \in 1..Len(Take(s, 50)) : s[k] \in 55296..57343
    THEN Raise("UnicodeEncodeError")
    ELSE <<Take(s, 50), index>>

\* InputMetadata(...), with volume and issue set from parse_volume_issue
Metadata(s) ==
    LET volume_issue == parse_volume_issue(s)
    IN
    [authors |-> parse_authors(s),
     title |-> parse_title(s),
     year |-> parse_year(s),
     publisher |-> parse_publisher(s),
     city |-> parse_city(s),
     pages |-> parse_pages(s),
     journal_title |-> parse_journal(s),
     url |-> parse_url(s),
     access_date |-> parse_access_date(s),
     doi |-> parse_doi(s),
     volume |-> volume_issue[1],
     issue |-> volume_issue[2],
     isbn |-> None,
     edition |-> None]

\* InputMetadata: the declared type of each field.  Only an Optional field
\* can hold None; title is a str and authors a list (None becomes []).
InputMetadataTypes ==
    [authors |-> "List", title |-> "str", year |-> "Optional",
     publisher |-> "Optional", city |-> "Optional", pages |-> "Optional",
     isbn |-> "Optional", doi |-> "Optional", url |-> "Optional",
     access_date |-> "Optional", volume |-> "Optional", issue |-> "Optional",
     journal_title |-> "Optional", edition |-> "Optional"]

\* the shortest example parse_example makes a record of
MinExampleLen == 30

\* the floor of the confidence, 0.3
MinConfidence == <<30, 0>>

parse_example(example_text, source_type, index) ==
    IF Len(example_text) < MinExampleLen THEN None
    ELSE LET metadata == Metadata(example_text)
             id == generate_id(example_text, index)
         IN IF IsRaise(id) THEN id
            ELSE
            Some([id |-> id,
                  source_type |-> source_type,
                  country_standard |-> "BY",
                  input_metadata |-> metadata,
                  formatted_output |-> Strip(example_text),
                  raw_example |-> Strip(example_text),
                  parsing_confidence |->
                      FloatMax(MinConfidence,
                               Confidence(metadata.authors, metadata.title,
                                          metadata.year))])

(***************************************************************************)
(* check_punctuation_errors (src/validate_dataset.py).  The non-ASCII      *)
(* characters of its patterns are the ones the file holds: the en dash     *)
(* stands there as the three characters U+201A U+00C4 U+00EC and the       *)
(* Cyrillic capital ES as U+2013 U+00B0.  An error is known by its kind.   *)
(***************************************************************************)
\* the ranges of the character class of pattern3, as <<first, last>>: 'ê-–',
\* '∞-—', 'A-Z', 'a-z'
Pattern3Ranges == <<<<234, 8211>>, <<8734, 8212>>, <<65, 90>>, <<97, 122>>>>

\* the characters that stand alone in that class: '–', 'Ø', 'Å', 'è', '—', 'ë'
Pattern3Singles == {8211, 216, 197, 232, 8212, 235}

\* re.compile refuses a class with a range whose ends are out of order
\* ("bad character range")
BadCharacterRange(ranges) == \E k \in 1..Len(ranges) : ranges[k][1] > ranges[k][2]

\* int(match.group(n)) of four digits at i
FourDigits(s, i) ==
    (s[i] - 48) * 1000 + (s[i + 1] - 48) * 100 + (s[i + 2] - 48) * 10 + (s[i + 3] - 48)

\* (\d{4})-(\d{4}) at i: its length, 0 when it does not match
YearPairLen(s, i) ==
    IF /\ \A k \in 0..3 : IsDigit(Ch(s, i + k))
       /\ Ch(s, i + 4) = 45
       /\ \A k \in 5..8 : IsDigit(Ch(s, i + k))
    THEN 9 ELSE 0

\* year1, year2 of the match at i
YearPair(s, i) == <<FourDigits(s, i), FourDigits(s, i + 5)>>

\* 1990 <= year1 < year2 <= 2030
IsYearRange(pair) == 1990 <= pair[1] /\ pair[1] < pair[2] /\ pair[2] <= 2030

\* check_punctuation_errors(text): the exception it ends with, or the kinds
\* of the errors it returns, in the order it appends them
check_punctuation_errors(s) ==
    LET dash == <<8218, 196, 236>>
        es == <<8211, 176, 46, 32>>
        Some1(cond, kind) == IF cond THEN <<kind>> ELSE <<>>
        NotSpaceOrDigit(c) == c # -1 /\ ~IsSpace(c) /\ ~IsDigit(c)
        InClass3(c) ==
            \/ c \in Pattern3Singles
            \/ \E k \in 1..Len(Pattern3Ranges) :
                   Pattern3Ranges[k][1] <= c /\ c <= Pattern3Ranges[k][2]
        \* pattern1: \. <dash>([^\s\d])
        check1 == \E i \in 1..Len(s) :
                      At(s, i, <<46, 32>> \o dash) /\ NotSpaceOrDigit(Ch(s, i + 5))
        \* pattern2: :([^\s/\d])
        check2 == \E i \in 1..Len(s) :
                      s[i] = 58 /\ Ch(s, i + 1) # 47 /\ NotSpaceOrDigit(Ch(s, i + 1))
        \* pattern3: (\w\. \w\.)([...])
        check3 == \E i \in 1..Len(s) :
                      /\ IsWord(s[i]) /\ At(s, i + 1, <<46, 32>>)
                      /\ IsWord(Ch(s, i + 3)) /\ Ch(s, i + 4) = 46
                      /\ InClass3(Ch(s, i + 5))
        \* pattern4, 4b, 4c: (\d) <dash> (\d), (\d)<dash> (\d), (\d) <dash>(\d)
        check4 == \E i \in 1..Len(s) :
                      /\ IsDigit(s[i]) /\ At(s, i + 1, <<32>> \o dash \o <<32>>)
                      /\ IsDigit(Ch(s, i + 6))
        check4b == \E i \in 1..Len(s) :
                      /\ IsDigit(s[i]) /\ At(s, i + 1, dash \o <<32>>)
                      /\ IsDigit(Ch(s, i + 5))
        check4c == \E i \in 1..Len(s) :
                      /\ IsDigit(s[i]) /\ At(s, i + 1, <<32>> \o dash)
                      /\ IsDigit(Ch(s, i + 5))
        \* pattern5: two spaces or more
        check5 == Contains(s, <<32, 32>>)
        \* pattern6: every match, left to right, that is a year range
        ranges == SelectSeq(FindAll(YearPairLen, YearPair, s), IsYearRange)
        \* pattern6b: <es>\. (\d+)-(\d+)
        check6b == \E i \in 1..Len(s) :
                      /\ At(s, i, es) /\ IsDigit(Ch(s, i + 4))
                      /\ Ch(s, RunEnd(IsDigit, s, i + 4)) = 45
                      /\ IsDigit(Ch(s, RunEnd(IsDigit, s, i + 4) + 1))
        \* pattern7: <es>\. (\d+) ?<dash> ?(\d+) at i: its length, 0 when it
        \* does not match
        DashAt(t, i) == LET e == RunEnd(IsDigit, t, i + 4)
                        IN IF Ch(t, e) = 32 THEN e + 1 ELSE e
        SecondAt(t, i) == IF Ch(t, DashAt(t, i) + 3) = 32
                          THEN DashAt(t, i) + 4 ELSE DashAt(t, i) + 3
        PageLen(t, i) ==
            IF /\ At(t, i, es) /\ IsDigit(Ch(t, i + 4))
               /\ At(t, DashAt(t, i), dash)
               /\ IsDigit(Ch(t, SecondAt(t, i)))
            THEN RunEnd(IsDigit, t, SecondAt(t, i)) - i ELSE 0
        \* whether full_match holds a space next to the dash
        PageSpaced(t, i) == \/ DashAt(t, i) > RunEnd(IsDigit, t, i + 4)
                            \/ SecondAt(t, i) > DashAt(t, i) + 3
        IsTrue(b) == b
        spaced == SelectSeq(FindAll(PageLen, PageSpaced, s), IsTrue)
    IN IF BadCharacterRange(Pattern3Ranges)
       THEN [raised |-> "re.error", errors |-> <<>>]
       ELSE [raised |-> "",
             errors |->
                Some1(check1, "missing_space_after_dash")
                \o Some1(check2, "missing_space_after_colon")
                \o Some1(check3, "missing_space_after_initials")
                \o Some1(check4, "spaces_in_range")
                \o Some1(check4b, "trailing_space_in_range")
                \o Some1(check4c, "leading_space_in_range")
                \o Some1(check5, "double_spaces")
                \o [k \in 1..Len(ranges) |-> "hyphen_instead_of_dash"]
                \o Some1(check6b, "hyphen_in_page_range")
                \o [k \in 1..Len(spaced) |-> "page_range_spaces"]]

(***************************************************************************)
(* The state machine.  An input text is drawn fragment by fragment; then   *)
(* the operations of the program are applied to it.                        *)
(***************************************************************************)
Init ==
    /\ text = <<>>
    /\ nfrag = 0
    /\ pc = "input"
    /\ cleaned = None
    /\ recleaned = None
    /\ tag = NoTag
    /\ tag_clean = NoTag
    /\ record = None
    /\ pub_year = None
    /\ call = "idle"
    /\ sources = <<>>
    /\ batches = <<>>
    /\ semaphore = 0
    /\ task = <<>>
    /\ all_results = <<>>
    /\ results = <<>>
    /\ stats = [processed |-> 0, errors_fixed |-> 0]
    /\ max_concurrent = 0
    /\ returned = [results |-> 0, errors_fixed |-> 0]
    /\ others = <<>>
    /\ errors = <<>>
    /\ raised = ""
    /\ records = <<>>
    /\ target_count = 0
    /\ variations_per_record = 0
    /\ expanded = <<>>
    /\ self_idx = 0
    /\ variation_counts = <<>>
    /\ cursor = 0
    /\ epc = "load"
    /\ http_requests = <<>>
    /\ result = None
    /\ page = <<>>
    /\ position = <<1, 1>>
    /\ current_source_type = "unknown"
    /\ page_index = 0
    /\ page_records = <<>>
    /\ ppc = "page"

\* one more fragment of F is appended to the input
Draw(F, max) ==
    /\ pc = "input"
    /\ nfrag < max
    /\ \E f \in F : text' = text \o f
    /\ nfrag' = nfrag + 1
    /\ UNCHANGED <<pc, cleaned, recleaned, tag, tag_clean, record, pub_year>>
    /\ UNCHANGED <<bvars, xvars>>

\* ex['example'] = clean_text(original), and the next run of the cleanup over
\* the saved dataset
Normalize ==
    /\ pc = "input"
    /\ cleaned' = clean_text(text)
    /\ recleaned' = clean_text(cleaned')
    /\ pc' = "done"
    /\ UNCHANGED <<text, nfrag, tag, tag_clean, record, pub_year>>
    /\ UNCHANGED <<bvars, xvars>>

\* doc_type = self._detect_document_type(text)
Classify ==
    /\ pc = "input"
    /\ tag' = _detect_document_type(text)
    /\ pc' = "classified"
    /\ UNCHANGED <<text, nfrag, cleaned, recleaned, tag_clean, record, pub_year>>
    /\ UNCHANGED <<bvars, xvars>>

\* the text is classified as it is and as clean_text leaves it
Reclassify ==
    /\ pc = "input"
    /\ cleaned' = clean_text(text)
    /\ tag' = _detect_document_type(text)
    /\ tag_clean' = _detect_document_type(cleaned')
    /\ pc' = "done"
    /\ UNCHANGED <<text, nfrag, recleaned, record, pub_year>>
    /\ UNCHANGED <<bvars, xvars>>

\* section types parse_page passes on, and the example number it starts with
SourceTypes == {"unknown", "book_1_3_authors"}
Indexes == {0}

\* record = self.parse_example(text, source_type, index); nothing is
\* assigned when the call raises
ParseExample ==
    /\ pc = "classified"
    /\ \E st \in SourceTypes : \E index \in Indexes :
           \E r \in {parse_example(text, st, index)} :
               IF IsRaise(r)
               THEN /\ raised' = r[2]
                    /\ pc' = "raised"
                    /\ UNCHANGED record
               ELSE /\ record' = r
                    /\ pc' = "parsed"
                    /\ UNCHANGED raised
    /\ UNCHANGED <<text, nfrag, cleaned, recleaned, tag, tag_clean, pub_year>>
    /\ UNCHANGED <<bvars, errors, evars, lvars, pvars>>

\* year=self.parse_year(example_text)
ParseYear ==
    /\ pc = "input"
    /\ pub_year' = parse_year(text)
    /\ pc' = "parsed"
    /\ UNCHANGED <<text, nfrag, cleaned, recleaned, tag, tag_clean, record>>
    /\ UNCHANGED <<bvars, xvars>>

\* the longest input, in fragments, of each specification
MaxNormFrags == 5
MaxEllipsisFrags == 4
MaxClassFrags == 3
MaxStableFrags == 3
MaxParseFrags == 3

\* punctuation of citations: ranges, separators, ellipses
NormFragments == {
    <<49>>,                          \* '1'
    <<32, 8211, 32>>,                \* ' – '
    <<32, 8211>>,                    \* ' –'
    <<8211, 32>>,                    \* '– '
    <<8211>>,                        \* '–'
    <<46, 32, 8211>>,                \* '. –'
    <<1072>>,                        \* 'а'
    <<46>>,                          \* '.'
    <<32>> }                         \* ' '

EllipsisFragments == {
    <<46, 32, 46, 46, 46, 32>>,      \* '. ... '
    <<46, 46, 46, 32>>,              \* '... '
    <<46>>,                          \* '.'
    <<44>>,                          \* ','
    <<32>>,                          \* ' '
    <<1072>>,                        \* 'а'
    <<49>> }                         \* '1'

\* one marker of every step of the classifier
ClassFragments == {
    <<91, 1053, 1086, 1090, 1099, 93, 32>>,                    \* '[Ноты] '
    <<1087, 1072, 1090, 46, 32, 66, 89, 32, 49, 32>>,                 \* 'пат. BY 1 '
    <<1076, 1080, 1089, 46, 32, 46, 46, 46, 32, 1082, 1072, 1085, 1076, 46, 32>>,            \* 'дис. ... канд. '
    <<1043, 1054, 1057, 1058, 32, 55, 32>>,                    \* 'ГОСТ 7 '
    <<1050, 1086, 1076, 1077, 1082, 1089, 32>>,                    \* 'Кодекс '
    <<1089, 1073, 46, 32, 1089, 1090, 46, 32>>,                   \* 'сб. ст. '
    <<32, 47, 47, 32>>,                       \* ' // '
    <<8470, 32, 53, 32>>,                       \* '№ 5 '
    <<1075, 1072, 1079, 1077, 1090, 1072, 32>>,                    \* 'газета '
    <<91, 1080, 32, 1076, 1088, 46, 93, 32>>,                   \* '[и др.] '
    <<1072, 1074, 1090, 1086, 1088, 1077, 1092, 46, 32>>,                  \* 'автореф. '
    <<1051, 1080, 44, 32, 1042, 46, 32, 1051, 1080, 44, 32, 1043, 46, 32>>,             \* 'Ли, В. Ли, Г. '
    <<1051, 1080, 44, 32, 1040, 46, 32, 1050, 1080, 1084, 44, 32, 1041, 46, 32>>,            \* 'Ли, А. Ким, Б. '
    <<1062, 1086, 1081, 44, 32, 1042, 46, 32, 1070, 1085, 44, 32, 1043, 46, 32>>,            \* 'Цой, В. Юн, Г. '
    <<91, 1069, 1083, 1077, 1082, 1090, 1088, 1086, 1085, 1085, 1099, 1081, 32, 1088, 1077, 1089, 1091, 1088, 1089, 93, 32>>,      \* '[Электронный ресурс] '
    <<1090, 1077, 1082, 1089, 1090, 32>> }                    \* 'текст '

\* markers with the spacing that clean_text rewrites
StableFragments == {
    <<1048, 1074, 1072, 1085, 1086, 1074>>,                     \* 'Иванов'
    <<32, 44>>,                         \* ' ,'
    <<44>>,                          \* ','
    <<32, 1048, 46, 32, 1048, 46, 32>>,                    \* ' И. И. '
    <<91, 1069, 1083, 1077, 1082, 1090, 1088, 1086, 1085, 1085, 1099, 1081>>,               \* '[Электронный'
    <<32>>,                          \* ' '
    <<1088, 1077, 1089, 1091, 1088, 1089, 93>>,                    \* 'ресурс]'
    <<32, 47, 47, 32>>,                       \* ' // '
    <<1058, 46>>,                         \* 'Т.'
    <<53>> }                         \* '5'

\* parts of citations: authors, title, imprint, electronic resource
ParseFragments == {
    <<1048, 1074, 1072, 1085, 1086, 1074, 44, 32, 1048, 46, 32, 1048, 46, 32>>,                          \* 'Иванов, И. И. '
    <<1054, 1089, 1085, 1086, 1074, 1099, 32, 1087, 1088, 1072, 1074, 1072, 32, 47, 32, 1048, 46, 32, 1048, 46, 32, 1048, 1074, 1072, 1085, 1086, 1074, 46, 32>>,           \* 'Основы права / И. И. Иванов. '
    <<8211, 32, 1052, 1080, 1085, 1089, 1082, 44, 32, 50, 48, 49, 51, 46, 32>>,                         \* '– Минск, 2013. '
    <<1057, 1087, 1088, 1072, 1074, 1086, 1095, 1085, 1080, 1082, 32, 58, 32>>,                           \* 'Справочник : '
    <<1090, 1077, 1082, 1089, 1090, 32, 1073, 1077, 1079, 32, 1087, 1088, 1080, 1079, 1085, 1072, 1082, 1086, 1074, 32>>,                    \* 'текст без признаков '
    <<1053, 1072, 1094, 1080, 1086, 1085, 1072, 1083, 1100, 1085, 1099, 1081, 32, 1087, 1088, 1072, 1074, 1086, 1074, 1086, 1081, 32, 1087, 1086, 1088, 1090, 1072, 1083, 32, 91, 1069, 1083, 1077, 1082, 1090, 1088, 1086, 1085, 1085, 1099, 1081, 32, 1088, 1077, 1089, 1091, 1088, 1089, 93, 46, 32, 8211, 32, 1056, 1077, 1078, 1080, 1084, 32, 1076, 1086, 1089, 1090, 1091, 1087, 1072, 58, 32>>,
        \* 'Национальный правовой портал [Электронный ресурс]. – Режим доступа: '
    <<104, 116, 116, 112, 58, 47, 47, 119, 119, 119, 46, 112, 114, 97, 118, 111, 46, 98, 121>>,                     \* 'http://www.pravo.by'
    <<46, 32, 8211, 32, 1044, 1072, 1090, 1072, 32, 1076, 1086, 1089, 1090, 1091, 1087, 1072, 58, 32, 50, 52, 46, 48, 54, 46, 50, 48, 50, 52, 46>>,           \* '. – Дата доступа: 24.06.2024.'
    <<46, 32, 8211, 32, 1076, 1072, 1090, 1072, 32, 1086, 1073, 1088, 1072, 1097, 1077, 1085, 1080, 1103, 58, 32, 50, 52, 46, 48, 54, 46, 50, 48, 50, 52, 46>>,        \* '. – дата обращения: 24.06.2024.'
    <<55296>> }                      \* '\ud800', a lone surrogate

NormDraw == Draw(NormFragments, MaxNormFrags)
NormNext == NormDraw \/ Normalize
SpecNorm == Init /\ [][NormNext]_vars

EllipsisDraw == Draw(EllipsisFragments, MaxEllipsisFrags)
EllipsisNext == EllipsisDraw \/ Normalize
SpecEllipsis == Init /\ [][EllipsisNext]_vars

ClassDraw == Draw(ClassFragments, MaxClassFrags)
ClassNext == ClassDraw \/ Classify
SpecClassify == Init /\ [][ClassNext]_vars

StableDraw == Draw(StableFragments, MaxStableFrags)
StableNext == StableDraw \/ Reclassify
SpecStable == Init /\ [][StableNext]_vars

ParseDraw == Draw(ParseFragments, MaxParseFrags)
ParseNext == ParseDraw \/ Classify \/ ParseExample
SpecParse == Init /\ [][ParseNext]_vars

\* colons as field separators and in URL schemes
MaxColonFrags == 4
ColonFragments == {
    <<58>>,                             \* ':'
    <<1072>>,                             \* 'а'
    <<1110>>,                             \* 'і' (Belarusian)
    <<66>>,                             \* 'B'
    <<32>>,                             \* ' '
    <<46>>,                             \* '.'
    <<104, 116, 116, 112, 58, 47, 47>>,                       \* 'http://'
    <<104, 116, 116, 112, 115, 58, 47, 47>> }                     \* 'https://'
ColonNext == Draw(ColonFragments, MaxColonFrags) \/ Normalize
SpecColon == Init /\ [][ColonNext]_vars

\* parts of citations: authors in the direct form, volume and issue,
\* imprints with and without a publisher
MaxFieldFrags == 3
FieldFragments == {
    <<1040, 46, 32, 1041, 46, 32, 1051, 1080, 59, 32, 1042, 46, 32, 1043, 46, 32, 1050, 1080, 1084, 59, 32>>,                   \* 'А. Б. Ли; В. Г. Ким; '
    <<1062, 1086, 1081, 44, 32, 1042, 46, 32, 1042, 46, 32>>,                             \* 'Цой, В. В. '
    <<1054, 1089, 1085, 1086, 1074, 1099, 32, 1087, 1088, 1072, 1074, 1072, 32, 1080, 32, 1087, 1086, 1083, 1080, 1090, 1080, 1082, 1080, 32, 47, 32>>,              \* 'Основы права и политики / '
    <<76, 97, 119, 32, 74, 111, 117, 114, 110, 97, 108, 46, 32, 8211, 32, 50, 48, 49, 48, 46, 32, 8211, 32, 86, 111, 108, 46, 32, 53, 44, 32, 78, 111, 46, 32, 50, 46, 32>>,  \* 'Law Journal. – 2010. – Vol. 5, No. 2. '
    <<47, 47, 32, 1042, 1077, 1089, 1085, 46, 32, 8211, 32, 50, 48, 49, 51, 46, 32, 8211, 32, 1058, 46, 32, 53, 44, 32, 8470, 32, 50, 46, 32>>,          \* '// Весн. – 2013. – Т. 5, № 2. '
    <<8211, 32, 1052, 1080, 1085, 1089, 1082, 32, 58, 32, 1040, 1084, 1072, 1083, 1092, 1077, 1103, 44, 32, 50, 48, 49, 51, 46, 32>>,               \* '– Минск : Амалфея, 2013. '
    <<8211, 32, 1052, 1080, 1085, 1089, 1082, 44, 32, 50, 48, 49, 51, 46, 32, 8211, 32, 52, 49, 53, 32, 1089, 46, 32>> }               \* '– Минск, 2013. – 415 с. '
FieldNext == Draw(FieldFragments, MaxFieldFrags) \/ Classify \/ ParseExample
SpecFields == Init /\ [][FieldNext]_vars

\* years, separators and terminators
MaxYearFrags == 5
YearFragments == {
    <<44>>,                             \* ','
    <<32>>,                             \* ' '
    <<46>>,                             \* '.'
    <<8211>>,                             \* '–'
    <<50, 48, 49, 51>>,                          \* '2013'
    <<49, 57, 57, 57>>,                          \* '1999'
    <<50, 48, 51, 48>> }                         \* '2030'
YearNext == Draw(YearFragments, MaxYearFrags) \/ ParseYear
SpecYear == Init /\ [][YearNext]_vars

\* errors = check_punctuation_errors(text)
CheckPunctuation ==
    /\ pc = "input"
    /\ errors' = check_punctuation_errors(text).errors
    /\ raised' = check_punctuation_errors(text).raised
    /\ pc' = "checked"
    /\ UNCHANGED <<text, nfrag, cleaned, recleaned, tag, tag_clean, record, pub_year>>
    /\ UNCHANGED <<bvars, evars, lvars, pvars>>

\* numbers with a hyphen between them
MaxHyphenFrags == 4
HyphenFragments == {
    <<49, 57, 56, 57>>,                             \* '1989'
    <<49, 57, 57, 48>>,                             \* '1990'
    <<50, 48, 49, 53>>,                             \* '2015'
    <<50, 48, 51, 48>>,                             \* '2030'
    <<50, 48, 51, 49>>,                             \* '2031'
    <<45>>,                                \* '-'
    <<32>>,                                \* ' '
    <<53>>,                                \* '5'
    <<58>> }                               \* ':'
HyphenNext == Draw(HyphenFragments, MaxHyphenFrags) \/ CheckPunctuation
SpecHyphen == Init /\ [][HyphenNext]_vars

(***************************************************************************)
(* GOSTFormatterAgent.format_batch and format_batch_async.  A source is    *)
(* known by its id; an item of a reply by its "id" key, when it has one,   *)
(* and by the source its "formatted" citation is the citation of.          *)
(***************************************************************************)
MaxSources == 3
MaxBatchSize == 2
MaxConcurrent == 2

Min(a, b) == IF a <= b THEN a ELSE b

\* [sources[i:i + batch_size] for i in range(0, len(sources), batch_size)]
Batches(srcs, batch_size) ==
    [b \in 1..((Len(srcs) + batch_size - 1) \div batch_size) |->
        SubSeq(srcs, (b - 1) * batch_size + 1, Min(b * batch_size, Len(srcs)))]

\* the longest "errors_fixed" list of an item of a reply
MaxFixes == 1

\* the calls start while fewer results than this were processed
MaxProcessed == 2

\* one object of the JSON array of a reply: its "errors_fixed" list is known
\* by its length
ReplyItem(k, with_id, fixes) ==
    [id |-> IF with_id THEN Some(k) ELSE None, formatted |-> k, errors_fixed |-> fixes]

Reversed(s) == [i \in 1..Len(s) |-> s[Len(s) + 1 - i]]

\* what messages.create can answer for a batch: no text at all, a text that
\* is not JSON, or a JSON array with the batch's sources in order, in reverse
\* order, without the last one, with one source twice, with or without "id"
\* keys, every item with the same number of fixes
Replies(batch) ==
    {[kind |-> k, items |-> <<>>] : k \in {"empty", "not_json"}} \cup
    {[kind |-> "array",
      items |-> [i \in 1..Len(about) |-> ReplyItem(about[i], with_id, fixes)]] :
        about \in {batch, Reversed(batch), SubSeq(batch, 1, Len(batch) - 1),
                   batch \o <<batch[1]>>},
        with_id \in BOOLEAN, fixes \in 0..MaxFixes}

\* the FormattedResult made of batch_results[idx]
FormattedResult(batch, batch_results, idx) ==
    LET r == batch_results[idx]
        result_id == IF r.id # None THEN r.id[1]
                     ELSE IF idx <= Len(batch) THEN batch[idx] ELSE idx
        original_source == IF \E j \in 1..Len(batch) : batch[j] = result_id
                           THEN result_id
                           ELSE IF idx <= Len(batch) THEN batch[idx] ELSE batch[1]
    IN [id |-> result_id, original |-> original_source, formatted |-> r.formatted,
        errors_fixed |-> r.errors_fixed]

\* the results of one batch, one for each item of the reply
formatted_results(batch, batch_results) ==
    [idx \in 1..Len(batch_results) |-> FormattedResult(batch, batch_results, idx)]

\* [item for sublist in all_results for item in sublist]
RECURSIVE Flatten(_)
Flatten(lists) ==
    IF lists = <<>> THEN <<>> ELSE Head(lists) \o Flatten(Tail(lists))

\* sum(len(r.errors_fixed) for r in results)
RECURSIVE SumFixes(_)
SumFixes(rs) ==
    IF rs = <<>> THEN 0 ELSE Head(rs).errors_fixed + SumFixes(Tail(rs))

\* self.stats["processed"] += n; self.stats["errors_fixed"] += fixes
Add(counters, n, fixes) ==
    [processed |-> counters.processed + n,
     errors_fixed |-> counters.errors_fixed + fixes]

\* the sources of the calls that wait
RECURSIVE SourcesOf(_)
SourcesOf(waiting) ==
    IF waiting = <<>> THEN 0
    ELSE Len(Head(waiting).sources) + SourcesOf(Tail(waiting))

\* a call of format_batch or of format_batch_async; MaxSources bounds the
\* sources of the calls on the event loop together
Submit ==
    /\ call = "idle"
    /\ stats.processed < MaxProcessed
    /\ \E n \in 0..(MaxSources - SourcesOf(others)) : \E batch_size \in 1..MaxBatchSize :
       \E permits \in 1..MaxConcurrent : \E mode \in {"sync", "async"} :
           /\ sources' = [i \in 1..n |-> i]
           /\ batches' = Batches(sources', batch_size)
           /\ task' = [b \in 1..Len(batches') |-> "waiting"]
           /\ all_results' = [b \in 1..Len(batches') |-> <<>>]
           /\ max_concurrent' = IF mode = "async" THEN permits ELSE 0
           /\ semaphore' = max_concurrent'
           /\ call' = mode
    /\ results' = <<>>
    /\ UNCHANGED <<stats, returned, others, tvars, xvars>>

\* format_batch: one turn of the loop, from the request to the statistics
SyncBatch ==
    /\ call = "sync"
    /\ \E b \in 1..Len(batches) :
        /\ task[b] = "waiting"
        /\ \A a \in 1..(b - 1) : task[a] = "done"
        /\ \E reply \in Replies(batches[b]) :
            IF reply.kind # "array"
            THEN /\ task' = [task EXCEPT ![b] = "failed"]
                 /\ call' = "raised"
                 /\ UNCHANGED <<results, stats>>
            ELSE /\ task' = [task EXCEPT ![b] = "done"]
                 /\ results' = results \o formatted_results(batches[b], reply.items)
                 /\ stats' = Add(stats, Len(reply.items), SumFixes(reply.items))
                 /\ UNCHANGED call
    /\ UNCHANGED <<sources, batches, semaphore, all_results, max_concurrent, returned,
                   others, tvars, xvars>>

\* format_batch: return results
SyncReturn ==
    /\ call = "sync"
    /\ \A b \in 1..Len(batches) : task[b] = "done"
    /\ call' = "returned"
    /\ returned' = [results |-> returned.results + Len(results),
                    errors_fixed |-> returned.errors_fixed + SumFixes(results)]
    /\ UNCHANGED <<sources, batches, semaphore, task, all_results, results, stats,
                   max_concurrent, others, tvars, xvars>>

\* process_one_batch: async with semaphore, without the wait for a permit
Acquire_NoWait(b) ==
    /\ call \in {"async", "raised"}
    /\ task[b] = "waiting"
    /\ \A a \in 1..(b - 1) : task[a] # "waiting"
    /\ semaphore' = semaphore - 1
    /\ task' = [task EXCEPT ![b] = "requesting"]
    /\ UNCHANGED <<call, sources, batches, all_results, results, stats,
                   max_concurrent, returned, others, tvars, xvars>>

\* process_one_batch: async with semaphore.  The tasks start in the order of
\* the batches and the semaphore wakes its waiters in that order.
Acquire(b) ==
    /\ call \in {"async", "raised"}
    /\ task[b] = "waiting"
    /\ \A a \in 1..(b - 1) : task[a] # "waiting"
    /\ semaphore > 0
    /\ semaphore' = semaphore - 1
    /\ task' = [task EXCEPT ![b] = "requesting"]
    /\ UNCHANGED <<call, sources, batches, all_results, results, stats,
                   max_concurrent, returned, others, tvars, xvars>>

\* process_one_batch: the reply of batch b arrives; the rest of the coroutine
\* runs, and the semaphore is released whether it returns or raises
Respond(b) ==
    /\ call \in {"async", "raised"}
    /\ task[b] = "requesting"
    /\ \E reply \in Replies(batches[b]) :
        IF reply.kind # "array"
        THEN /\ task' = [task EXCEPT ![b] = "failed"]
             /\ UNCHANGED all_results
        ELSE /\ task' = [task EXCEPT ![b] = "done"]
             /\ all_results' = [all_results EXCEPT
                                   ![b] = formatted_results(batches[b], reply.items)]
    /\ semaphore' = semaphore + 1
    /\ UNCHANGED <<call, sources, batches, results, stats, max_concurrent, returned,
                   others, tvars, xvars>>

\* format_batch_async: asyncio.gather has every batch's list; they are joined
\* in the order of the batches, counted and returned
Gather ==
    /\ call = "async"
    /\ \A b \in 1..Len(batches) : task[b] = "done"
    /\ results' = Flatten(all_results)
    /\ stats' = Add(stats, Len(results'), SumFixes(results'))
    /\ call' = "returned"
    /\ returned' = [results |-> returned.results + Len(results'),
                    errors_fixed |-> returned.errors_fixed + SumFixes(results')]
    /\ UNCHANGED <<sources, batches, semaphore, task, all_results, max_concurrent,
                   others, tvars, xvars>>

\* format_batch_async: asyncio.gather passes on the first exception; the
\* other requests run on
GatherRaise ==
    /\ call = "async"
    /\ \E b \in 1..Len(batches) : task[b] = "failed"
    /\ call' = "raised"
    /\ UNCHANGED <<sources, batches, semaphore, task, all_results, results, stats,
                   max_concurrent, returned, others, tvars, xvars>>

\* what messages.create can answer to format_single: no text, a text that is
\* not JSON, or a JSON object with "formatted", "errors_fixed" and "confidence"
SingleReplies ==
    {[kind |-> k, errors_fixed |-> 0] : k \in {"empty", "not_json"}} \cup
    {[kind |-> "object", errors_fixed |-> fixes] : fixes \in 0..MaxFixes}

\* format_single, from the request to the return: it runs without a
\* suspension point, between the steps of a format_batch_async call or
\* between calls
FormatSingle ==
    /\ call \in {"idle", "async", "raised", "returned"}
    /\ stats.processed < MaxProcessed
    /\ \E reply \in SingleReplies :
        IF reply.kind # "object"
        THEN UNCHANGED <<stats, returned>>
        ELSE /\ stats' = Add(stats, 1, reply.errors_fixed)
             /\ returned' = [results |-> returned.results + 1,
                             errors_fixed |-> returned.errors_fixed + reply.errors_fixed]
    /\ UNCHANGED <<call, sources, batches, semaphore, task, all_results, results,
                   max_concurrent, others, tvars, xvars>>

\* the most calls that wait while another runs
MaxWaiting == 1

\* the call is format_batch_async and some of its coroutines have not ended:
\* they run on when gather has raised (the call is "raised" then)
Pending ==
    /\ max_concurrent > 0
    /\ \E b \in 1..Len(batches) : task[b] \in {"waiting", "requesting"}

\* format_batch_async stands at 'await asyncio.gather': from the call of
\* gather until the call resumes with the results or with the first
\* exception, and after that while coroutines of it are left
Awaiting == call = "async" \/ (call = "raised" /\ Pending)

\* the call, as it stands on the event loop
Coroutines ==
    [call |-> call, sources |-> sources, batches |-> batches,
     semaphore |-> semaphore, task |-> task, all_results |-> all_results,
     results |-> results, max_concurrent |-> max_concurrent]

\* the caller has the outcome of the call, and nothing of the call is left
\* on the event loop: format_batch has returned or raised (the batches after
\* a failed one are never asked for), or every coroutine of
\* format_batch_async has ended
NextCall ==
    /\ call \in {"returned", "raised"}
    /\ ~Pending
    /\ call' = "idle"
    /\ sources' = <<>>
    /\ batches' = <<>>
    /\ semaphore' = 0
    /\ task' = <<>>
    /\ all_results' = <<>>
    /\ results' = <<>>
    /\ max_concurrent' = 0
    /\ UNCHANGED <<stats, returned, others, tvars, xvars>>

\* format_batch_async awaits gather, its tasks ended or not, or has raised
\* with requests still on their way: the event loop is free, another call
\* can start
Suspend ==
    /\ Awaiting
    /\ Len(others) < MaxWaiting
    /\ others' = Append(others, Coroutines)
    /\ call' = "idle"
    /\ sources' = <<>>
    /\ batches' = <<>>
    /\ semaphore' = 0
    /\ task' = <<>>
    /\ all_results' = <<>>
    /\ results' = <<>>
    /\ max_concurrent' = 0
    /\ UNCHANGED <<stats, returned, tvars, xvars>>

\* the event loop turns to a call that waits; the call that was at hand,
\* awaiting or ended, takes its place.  format_batch has no await: nothing
\* else runs until it has returned or raised
Resume ==
    /\ call # "sync"
    /\ \E i \in 1..Len(others) :
        /\ call' = others[i].call
        /\ sources' = others[i].sources
        /\ batches' = others[i].batches
        /\ semaphore' = others[i].semaphore
        /\ task' = others[i].task
        /\ all_results' = others[i].all_results
        /\ results' = others[i].results
        /\ max_concurrent' = others[i].max_concurrent
        /\ others' = IF call = "idle"
                      THEN SubSeq(others, 1, i - 1) \o SubSeq(others, i + 1, Len(others))
                      ELSE [others EXCEPT ![i] = Coroutines]
    /\ UNCHANGED <<stats, returned, tvars, xvars>>

BatchNext ==
    \/ Submit
    \/ SyncBatch
    \/ SyncReturn
    \/ \E b \in 1..Len(batches) : Acquire(b)
    \/ \E b \in 1..Len(batches) : Respond(b)
    \/ Gather
    \/ GatherRaise
SpecBatch == Init /\ [][BatchNext]_vars

\* calls one after another and calls that overlap on the event loop, and
\* format_single between the steps of a call
StatsNext == BatchNext \/ FormatSingle \/ NextCall \/ Suspend \/ Resume
SpecStats == Init /\ [][StatsNext]_vars

(***************************************************************************)
(* DatasetExpander.expand (src/dataset_expander.py).  A record of the      *)
(* dataset is known by its 'id' key, when it has one, and its source_type; *)
(* an id is a number, 0 is the empty string.  An entry of self.expanded is *)
(* known by the record of self.records it copies or varies ("of"); the     *)
(* text create_variation draws at random is left out, so the id of a       *)
(* variation is known by the idx gen_id was given.  A key of the dict      *)
(* variation_counts is <<"id", n>> for the str n or <<"index", i>> for the *)
(* int i.                                                                  *)
(***************************************************************************)
MaxRecords == 2
MaxTarget == 4
MaxVariations == 2

\* r.get('id', default), as a key of variation_counts
get_id(r, default) == IF r.id = None THEN default ELSE <<"id", r.id[1]>>

\* the positions in self.records of the records of records_to_vary
RECURSIVE records_to_vary(_, _)
records_to_vary(recs, i) ==
    IF i > Len(recs) THEN <<>>
    ELSE (IF recs[i].source_type # "unknown" THEN <<i>> ELSE <<>>)
             \o records_to_vary(recs, i + 1)

\* {r.get('id', i): 0 for i, r in enumerate(records_to_vary)}
InitialCounts(recs) ==
    LET to_vary == records_to_vary(recs, 1)
    IN  [k \in {get_id(recs[to_vary[j]], <<"index", j - 1>>) : j \in 1..Len(to_vary)} |-> 0]

\* record.copy() with is_variation False
Original(i) ==
    [of |-> i, is_variation |-> FALSE, original_id |-> None,
     variation_number |-> None, gen_id |-> None]

create_variation(recs, i, variation_num, at_idx) ==
    [of |-> i, is_variation |-> TRUE,
     original_id |-> Some(get_id(recs[i], <<"id", 0>>)[2]),
     variation_number |-> Some(variation_num), gen_id |-> Some(at_idx)]

\* one more record of the dataset file
LoadRecord ==
    /\ epc = "load"
    /\ Len(records) < MaxRecords
    /\ \E id \in {None, Some(1), Some(2)}, source_type \in {"unknown", "book"} :
           records' = Append(records, [id |-> id, source_type |-> source_type])
    /\ UNCHANGED <<target_count, variations_per_record, expanded, self_idx,
                   variation_counts, cursor, epc>>
    /\ UNCHANGED <<tvars, bvars, vvars, lvars, pvars>>

\* expand up to its while loop
Expand ==
    /\ epc = "load"
    /\ \E t \in 0..MaxTarget, v \in 0..MaxVariations :
           /\ target_count' = t
           /\ variations_per_record' = v
    /\ expanded' = [i \in 1..Len(records) |-> Original(i)]
    /\ self_idx' = Len(records)
    /\ cursor' = 0
    /\ IF records_to_vary(records, 1) = <<>>
       THEN /\ variation_counts' = <<>>
            /\ epc' = "returned"
       ELSE /\ variation_counts' = InitialCounts(records)
            /\ epc' = "while"
    /\ UNCHANGED records
    /\ UNCHANGED <<tvars, bvars, vvars, lvars, pvars>>

\* the test of the while loop
While ==
    /\ epc = "while"
    /\ IF Len(expanded) < target_count
       THEN /\ epc' = "for"
            /\ cursor' = 1
       ELSE /\ epc' = "returned"
            /\ cursor' = 0
    /\ UNCHANGED <<records, target_count, variations_per_record, expanded,
                   self_idx, variation_counts>>
    /\ UNCHANGED <<tvars, bvars, vvars, lvars, pvars>>

\* one pass of the body of the for loop
ForStep ==
    /\ epc = "for"
    /\ cursor <= Len(records_to_vary(records, 1))
    /\ LET to_vary == records_to_vary(records, 1)
           record_id == get_id(records[to_vary[cursor]], <<"id", 0>>)
           current_count == IF record_id \in DOMAIN variation_counts
                            THEN variation_counts[record_id] ELSE 0
       IN  IF Len(expanded) >= target_count
           THEN /\ cursor' = Len(to_vary) + 1
                /\ UNCHANGED <<expanded, self_idx, variation_counts>>
           ELSE IF current_count >= variations_per_record
           THEN /\ cursor' = cursor + 1
                /\ UNCHANGED <<expanded, self_idx, variation_counts>>
           ELSE /\ expanded' = Append(expanded,
                        create_variation(records, to_vary[cursor], current_count, self_idx))
                /\ self_idx' = self_idx + 1
                /\ variation_counts' =
                       [k \in DOMAIN variation_counts \cup {record_id} |->
                            IF k = record_id THEN current_count + 1
                            ELSE variation_counts[k]]
                /\ cursor' = cursor + 1
    /\ UNCHANGED <<records, target_count, variations_per_record, epc>>
    /\ UNCHANGED <<tvars, bvars, vvars, lvars, pvars>>

\* after the for loop: the counters start again when all are at the limit
EndOfFor ==
    /\ epc = "for"
    /\ cursor > Len(records_to_vary(records, 1))
    /\ variation_counts' =
           IF \A k \in DOMAIN variation_counts :
                  variation_counts[k] >= variations_per_record
           THEN [k \in DOMAIN variation_counts |-> 0]
           ELSE variation_counts
    /\ epc' = "while"
    /\ cursor' = 0
    /\ UNCHANGED <<records, target_count, variations_per_record, expanded, self_idx>>
    /\ UNCHANGED <<tvars, bvars, vvars, lvars, pvars>>

ExpandNext == LoadRecord \/ Expand \/ While \/ ForStep \/ EndOfFor
SpecExpand == Init /\ [][ExpandNext]_vars

\* the interpreter runs the loops of expand on: no step of them waits
SpecExpandFair == SpecExpand /\ WF_vars(While \/ ForStep \/ EndOfFor)

(***************************************************************************)
(* MetadataLookup (src/metadata_lookup.py).  The reply to self.client.get  *)
(* is known by its status, 0 when no reply came (a timeout), and the kind  *)
(* of its body: not JSON, a JSON number, an empty JSON array, the empty    *)
(* object, an object whose expected key holds a number, or an object as    *)
(* the API gives it.  An error message is known by its kind, the data of a *)
(* result by its "type".  self.client is an httpx.Client.                  *)
(***************************************************************************)
MaxLookupFrags == 3
LookupFragments ==
    { <<49, 48, 46, 49, 50, 51, 52, 47>>,   \* '10.1234/'
      <<120>>,          \* 'x'
      <<49, 50, 51, 52, 53>>,      \* '12345'
      <<57, 55, 56>>,        \* '978'
      <<104, 101, 108, 108, 111>>,      \* 'hello'
      <<104, 101, 108, 108, 127>>,      \* 'hell\x7f'
      <<45>>,          \* '-'
      <<32>> }         \* ' '

Responses ==
    [status : {0, 302, 404, 500}, body : {"not_json"}]
        \cup [status : {200, 201},
              body : {"not_json", "number", "array", "empty_object", "wrong_value",
                      "complete"}]

MetadataResult(success, source, data, error) ==
    [success |-> success, source |-> source, data |-> data, error |-> error]

\* DOI_PATTERN.match(t): ^10\.\d{4,}/[^\s]+$
DOI_PATTERN(t) ==
    LET NotSpace(c) == ~IsSpace(c)
        slash == RunEnd(IsDigit, t, 4)
    IN  /\ At(t, 1, <<49, 48, 46>>)   \* '10.'
        /\ slash - 4 >= 4
        /\ Ch(t, slash) = 47
        /\ LET end == RunEnd(NotSpace, t, slash + 1)
           IN  /\ end > slash + 1
               /\ end = Len(t) + 1 \/ (end = Len(t) /\ t[end] = 10)

detect_identifier(identifier) ==
    LET stripped == Strip(identifier)
        clean_isbn == StrReplace(StrReplace(stripped, <<45>>, <<>>), <<32>>, <<>>)
    IN  IF DOI_PATTERN(stripped) THEN <<"doi", stripped>>
        ELSE IF Len(clean_isbn) = 13 /\ \A k \in 1..13 : IsDigit(clean_isbn[k])
        THEN <<"isbn", clean_isbn>>
        ELSE IF Len(clean_isbn) = 10 THEN <<"isbn", clean_isbn>>
        ELSE <<"unknown", stripped>>

\* self.client.get(url) raises httpx.InvalidURL, which is no httpx.HTTPError,
\* before anything is sent: the URL holds an ASCII character that is not
\* printable, or is longer than 65536 characters
InvalidURL(url) ==
    \/ Len(url) > 65536
    \/ \E k \in 1..Len(url) : url[k] \in (0..31) \cup {127}

lookup_by_doi(doi, response) ==
    IF InvalidURL(<<104, 116, 116, 112, 115, 58, 47, 47, 97, 112, 105, 46, 99, 114, 111, 115, 115, 114, 101, 102, 46, 111, 114, 103, 47, 119, 111, 114, 107, 115, 47>> \o doi)
           \* 'https://api.crossref.org/works/'
    THEN MetadataResult(FALSE, "crossref", None, Some("error"))
    ELSE IF response.status = 0
    THEN MetadataResult(FALSE, "crossref", None, Some("http_error"))
    ELSE IF response.status = 404
    THEN MetadataResult(FALSE, "crossref", None, Some("not_found"))
    ELSE IF response.status \notin 200..299     \* response.raise_for_status()
    THEN MetadataResult(FALSE, "crossref", None, Some("http_error"))
    ELSE IF response.body \in {"not_json", "number", "array", "wrong_value"}
    THEN MetadataResult(FALSE, "crossref", None, Some("error"))
    ELSE MetadataResult(TRUE, "crossref", Some("article"), None)

lookup_by_isbn(isbn, response) ==
    IF InvalidURL(<<104, 116, 116, 112, 115, 58, 47, 47, 111, 112, 101, 110, 108, 105, 98, 114, 97, 114, 121, 46, 111, 114, 103, 47, 97, 112, 105, 47, 98, 111, 111, 107, 115, 63, 98, 105, 98, 107, 101, 121, 115, 61, 73, 83, 66, 78, 58>>
                      \* 'https://openlibrary.org/api/books?bibkeys=ISBN:'
                  \o StrReplace(StrReplace(isbn, <<45>>, <<>>), <<32>>, <<>>)
                  \o <<38, 102, 111, 114, 109, 97, 116, 61, 106, 115, 111, 110, 38, 106, 115, 99, 109, 100, 61, 100, 97, 116, 97>>)   \* '&format=json&jscmd=data'
    THEN MetadataResult(FALSE, "openlibrary", None, Some("error"))
    ELSE IF response.status \notin 200..299     \* response.raise_for_status()
    THEN MetadataResult(FALSE, "openlibrary", None, Some("http_error"))
    ELSE IF response.body \in {"not_json", "number", "wrong_value"}
    THEN MetadataResult(FALSE, "openlibrary", None, Some("error"))
    ELSE IF response.body \in {"array", "empty_object"}
    THEN MetadataResult(FALSE, "openlibrary", None, Some("not_found"))
    ELSE MetadataResult(TRUE, "openlibrary", Some("book"), None)

\* lookup, with the reply its request gets when it makes one
Lookup ==
    /\ pc = "input"
    /\ pc' = "looked"
    /\ LET id == detect_identifier(text)
       IN  IF id[1] = "doi"
           THEN /\ http_requests' = << [api |-> "crossref", value |-> id[2]] >>
                /\ \E response \in Responses :
                       result' = Some(lookup_by_doi(id[2], response))
           ELSE IF id[1] = "isbn"
           THEN /\ http_requests' = << [api |-> "openlibrary", value |-> id[2]] >>
                /\ \E response \in Responses :
                       result' = Some(lookup_by_isbn(id[2], response))
           ELSE /\ http_requests' = <<>>
                /\ result' = Some(MetadataResult(FALSE, "unknown", None,
                                                 Some("unknown_type")))
    /\ UNCHANGED <<text, nfrag, cleaned, recleaned, tag, tag_clean, record, pub_year>>
    /\ UNCHANGED <<bvars, vvars, evars, pvars>>

LookupNext == Draw(LookupFragments, MaxLookupFrags) \/ Lookup
SpecLookup == Init /\ [][LookupNext]_vars

(***************************************************************************)
(* VAKParser.parse_page (src/vak_parser.py).  The page is the list of its  *)
(* tables as soup.find_all('table') gives them, a table the list of its    *)
(* rows, a row the list of the texts of its cells.                         *)
(***************************************************************************)
SOURCE_TYPES ==
    <<
       <<<<1086, 1076, 1085, 1080, 1084, 44, 32, 1076, 1074, 1091, 1084, 1103>>, "book_1_3_authors">>,   \* 'одним, двумя'
       <<<<1090, 1088, 1077, 1084, 1103, 32, 1072, 1074, 1090, 1086, 1088>>, "book_1_3_authors">>,   \* 'тремя автор'
       <<<<1095, 1077, 1090, 1099, 1088, 1100, 1084, 1103>>, "book_4plus_authors">>,   \* 'четырьмя'
       <<<<1073, 1086, 1083, 1077, 1077, 32, 1072, 1074, 1090, 1086, 1088>>, "book_4plus_authors">>,   \* 'более автор'
       <<<<1082, 1086, 1083, 1083, 1077, 1082, 1090, 1080, 1074, 1085, 1099, 1084, 32, 1072, 1074, 1090, 1086, 1088, 1086, 1084>>, "book_collective_author">>,   \* 'коллективным автором'
       <<<<1084, 1085, 1086, 1075, 1086, 1090, 1086, 1084, 1085>>, "multivolume">>,   \* 'многотомн'
       <<<<1086, 1090, 1076, 1077, 1083, 1100, 1085, 1099, 1077, 32, 1090, 1086, 1084, 1072>>, "multivolume_part">>,   \* 'отдельные тома'
       <<<<1079, 1072, 1082, 1086, 1085, 1086, 1076, 1072, 1090, 1077, 1083, 1100, 1085>>, "law">>,   \* 'законодательн'
       <<<<1087, 1088, 1072, 1074, 1086, 1074, 1099, 1077, 32, 1072, 1082, 1090, 1099>>, "law">>,   \* 'правовые акты'
       <<<<1089, 1090, 1072, 1085, 1076, 1072, 1088, 1090>>, "standard">>,   \* 'стандарт'
       <<<<1072, 1074, 1090, 1086, 1088, 1077, 1092, 1077, 1088>>, "abstract">>,   \* 'авторефер'
       <<<<1076, 1080, 1089, 1089, 1077, 1088, 1090, 1072, 1094, 1080>>, "dissertation">>,   \* 'диссертаци'
       <<<<1076, 1077, 1087, 1086, 1085, 1080, 1088, 1086, 1074, 1072, 1085>>, "deposited">>,   \* 'депонирован'
       <<<<1072, 1088, 1093, 1080, 1074, 1085>>, "archive">>,   \* 'архивн'
       <<<<1101, 1083, 1077, 1082, 1090, 1088, 1086, 1085, 1085>>, "electronic_resource">>,   \* 'электронн'
       <<<<1080, 1085, 1090, 1077, 1088, 1085, 1077, 1090>>, "electronic_resource">>,   \* 'интернет'
       <<<<1089, 1090, 1072, 1090, 1100, 1080, 32, 1080, 1079, 32, 1078, 1091, 1088, 1085, 1072, 1083>>, "journal_article">>,   \* 'статьи из журнал'
       <<<<1075, 1072, 1079, 1077, 1090>>, "newspaper_article">>,   \* 'газет'
       <<<<1089, 1073, 1086, 1088, 1085, 1080, 1082>>, "collection_article">>,   \* 'сборник'
       <<<<1084, 1072, 1090, 1077, 1088, 1080, 1072, 1083, 1099, 32, 1082, 1086, 1085, 1092, 1077, 1088, 1077, 1085, 1094>>, "conference">>,   \* 'материалы конференц'
       <<<<1089, 1098, 1077, 1079, 1076>>, "conference">>,   \* 'съезд'
       <<<<1089, 1080, 1084, 1087, 1086, 1079, 1080, 1091, 1084>>, "conference">>,   \* 'симпозиум'
       <<<<1088, 1077, 1094, 1077, 1085, 1079, 1080>>, "review">>,   \* 'рецензи'
       <<<<1082, 1072, 1088, 1090>>, "map">>,   \* 'карт'
       <<<<1087, 1072, 1090, 1077, 1085, 1090>>, "patent">>,   \* 'патент'
       <<<<1087, 1088, 1077, 1087, 1088, 1080, 1085, 1090>>, "preprint">> >>   \* 'препринт'

RECURSIVE FirstKeyword(_, _)
FirstKeyword(header_lower, k) ==
    IF k > Len(SOURCE_TYPES) THEN "unknown"
    ELSE IF Contains(header_lower, SOURCE_TYPES[k][1]) THEN SOURCE_TYPES[k][2]
    ELSE FirstKeyword(header_lower, k + 1)

detect_source_type(header_text) == FirstKeyword(Lower(header_text), 1)

\* s.split('\n')
RECURSIVE SplitLines(_)
SplitLines(s) ==
    LET nl == Find(s, <<10>>, 1)
    IN  IF nl = 0 THEN <<s>>
        ELSE <<SubSeq(s, 1, nl - 1)>> \o SplitLines(From(s, nl + 1))

\* a first cell this short or shorter is not read as a type
MaxShortHeader == 5
\* a line this short or shorter is not read as an example
MaxShortExample == 40

\* current_source_type after the first cell of a row
NextSourceType_Reset(current, type_cell) ==
    IF type_cell # <<>> /\ Len(type_cell) > MaxShortHeader
    THEN detect_source_type(type_cell)
    ELSE current

NextSourceType(current, type_cell) ==
    IF type_cell # <<>> /\ Len(type_cell) > MaxShortHeader
          /\ detect_source_type(type_cell) # "unknown"
    THEN detect_source_type(type_cell)
    ELSE current

\* what parse_example(example, source_type, ix) returns, a record of the
\* page being known by its id, its source_type and its raw_example
ParsedExample(example, source_type, ix) ==
    IF Len(example) < MinExampleLen THEN None
    ELSE IF IsRaise(generate_id(example, ix)) THEN generate_id(example, ix)
    ELSE Some([id |-> generate_id(example, ix),
               source_type |-> source_type,
               raw_example |-> Strip(example)])

\* the loop over the examples of a cell ends with the exception of
\* parse_example, which leaves parse_page too
ParseRaises(examples) ==
    \E k \in 1..Len(examples) :
        /\ Len(Strip(examples[k])) > MaxShortExample
        /\ IsRaise(ParsedExample(Strip(examples[k]), "unknown", 0))

\* the loop over the examples of a cell: the records it appends from line k
\* on, when it comes to that line with index ix, up to the end of the cell
\* or to the line parse_example raises on
RECURSIVE ParseExamples(_, _, _, _)
ParseExamples(examples, k, source_type, ix) ==
    IF k > Len(examples) THEN <<>>
    ELSE IF Len(Strip(examples[k])) > MaxShortExample
              /\ IsRaise(ParsedExample(Strip(examples[k]), source_type, ix))
    THEN <<>>
    ELSE IF Len(Strip(examples[k])) > MaxShortExample
              /\ ParsedExample(Strip(examples[k]), source_type, ix) # None
    THEN <<ParsedExample(Strip(examples[k]), source_type, ix)[1]>>
             \o ParseExamples(examples, k + 1, source_type, ix + 1)
    ELSE ParseExamples(examples, k + 1, source_type, ix)

\* the rows of a page, over all its tables, and its tables
MaxPageRows == 2
MaxTables == 2

RECURSIVE PageRows(_)
PageRows(tables) ==
    IF tables = <<>> THEN 0 ELSE Len(Head(tables)) + PageRows(Tail(tables))

HeaderCells ==
    { <<32, 1057, 1090, 1072, 1090, 1100, 1080, 32, 1080, 1079, 32, 1078, 1091, 1088, 1085, 1072, 1083, 1086, 1074, 32>>,           \* ' Статьи из журналов '
      <<1040, 1074, 1090, 1086, 1088, 1077, 1092, 1077, 1088, 1072, 1090, 1099, 32, 1076, 1080, 1089, 1089, 1077, 1088, 1090, 1072, 1094, 1080, 1081>>,       \* 'Авторефераты диссертаций'
      <<1055, 1088, 1086, 1095, 1080, 1077, 32, 1080, 1089, 1090, 1086, 1095, 1085, 1080, 1082, 1080>>,               \* 'Прочие источники'
      <<1050, 1072, 1088, 1090, 1099>> }                         \* 'Карты'

\* the cell of a row that has no second cell
SpanningCells ==
    { <<1057, 1090, 1072, 1090, 1100, 1080, 32, 1080, 1079, 32, 1075, 1072, 1079, 1077, 1090>> }               \* 'Статьи из газет'

ExampleCells ==
    { <<>>,
      <<10, 32, 32, 1051, 1080, 44, 32, 1040, 46, 32, 1055, 1088, 1072, 1074, 1086, 32, 1080, 32, 1089, 1091, 32, 47, 32, 1040, 46, 32, 1051, 1080, 46, 32, 8211, 32, 1052, 1080, 1085, 1089, 1082, 44, 32, 50, 48, 49, 53, 46, 32, 10, 1051, 1080, 44, 32, 1040, 46, 32, 1055, 1088, 1072, 1074, 1086, 32, 1080, 32, 1089, 32, 47, 32, 1040, 46, 32, 1051, 1080, 46, 32, 8211, 32, 1052, 1080, 1085, 1089, 1082, 44, 32, 50, 48, 49, 53, 46, 10, 1048, 1074, 1072, 1085, 1086, 1074, 44, 32, 1040, 46, 32, 1040, 46, 32, 1055, 1088, 1072, 1074, 1086, 32, 47, 32, 1040, 46, 32, 1040, 46, 32, 1048, 1074, 1072, 1085, 1086, 1074, 46, 32, 8211, 32, 1052, 1080, 1085, 1089, 1082, 32, 58, 32, 1053, 1072, 1091, 1082, 1072, 44, 32, 50, 48, 49, 53, 46, 32, 8211, 32, 49, 48, 48, 32, 1089, 46, 10>>,
      <<1048, 1074, 1072, 1085, 1086, 1074, 44, 32, 1040, 46, 32, 1040, 46, 32, 1055, 1088, 1072, 1074, 1086, 32, 47, 32, 1040, 46, 32, 1040, 46, 32, 1048, 1074, 1072, 1085, 1086, 1074, 46, 32, 8211, 32, 1052, 1080, 1085, 1089, 1082, 32, 58, 32, 1053, 1072, 1091, 1082, 1072, 44, 32, 50, 48, 49, 53, 46, 32, 8211, 32, 49, 48, 48, 32, 1089, 46, 10, 55296, 1051, 1080, 44, 32, 1040, 46, 32, 1055, 1088, 1072, 1074, 1086, 32, 1080, 32, 1089, 1091, 32, 47, 32, 1040, 46, 32, 1051, 1080, 46, 32, 8211, 32, 1052, 1080, 1085, 1089, 1082, 44, 32, 50, 48, 49, 53, 46>> }
      \* '\n  Ли, А. Право и су / А. Ли. – Минск, 2015. \nЛи, А. Право и с / А. Ли. – Минск, 2015.\nИванов, А. А. Право / А. А. Иванов. – Минск : Наука, 2015. – 100 с.\n'
      \* and 'Иванов, А. А. Право / А. А. Иванов. – Минск : Наука, 2015. – 100 с.\n\ud800Ли, А. Право и су / А. Ли. – Минск, 2015.'

\* one more row of the page, in the last table or in a new one
AddRow ==
    /\ ppc = "page"
    /\ PageRows(page) < MaxPageRows
    /\ \E row \in {<<h>> : h \in SpanningCells}
                     \cup {<<h, e>> : h \in HeaderCells, e \in ExampleCells} :
       \E new_table \in BOOLEAN :
           /\ new_table => Len(page) < MaxTables
           /\ ~new_table => Len(page) > 0
           /\ page' = IF new_table THEN Append(page, <<row>>)
                      ELSE [page EXCEPT ![Len(page)] = Append(@, row)]
    /\ UNCHANGED <<position, current_source_type, page_index, page_records, ppc>>
    /\ UNCHANGED <<tvars, bvars, vvars, evars, lvars>>

\* parse_page up to its loops
ParsePage ==
    /\ ppc = "page"
    /\ ppc' = "rows"
    /\ page_records' = <<>>
    /\ current_source_type' = "unknown"
    /\ page_index' = 0
    /\ position' = <<1, 1>>
    /\ UNCHANGED page
    /\ UNCHANGED <<tvars, bvars, vvars, evars, lvars>>

\* one pass of the body of the loop over the rows
ParseRow ==
    /\ ppc = "rows"
    /\ position[1] <= Len(page)
    /\ LET t == position[1]
           r == position[2]
           cells == page[t][r]
       IN  /\ IF Len(cells) >= 2
              THEN LET type_cell == Strip(cells[1])
                       source_type == NextSourceType(current_source_type, type_cell)
                       parsed == ParseExamples(SplitLines(cells[2]), 1, source_type,
                                               page_index)
                   IN  /\ current_source_type' = source_type
                       /\ page_records' = page_records \o parsed
                       /\ page_index' = page_index + Len(parsed)
              ELSE UNCHANGED <<current_source_type, page_records, page_index>>
           /\ IF Len(cells) >= 2 /\ ParseRaises(SplitLines(cells[2]))
              THEN /\ ppc' = "raised"
                   /\ UNCHANGED position
              ELSE /\ position' = IF r < Len(page[t]) THEN <<t, r + 1>>
                                  ELSE <<t + 1, 1>>
                   /\ UNCHANGED ppc
    /\ UNCHANGED page
    /\ UNCHANGED <<tvars, bvars, vvars, evars, lvars>>

\* return records
ReturnRecords ==
    /\ ppc = "rows"
    /\ position[1] > Len(page)
    /\ ppc' = "returned"
    /\ UNCHANGED <<page, position, current_source_type, page_index, page_records>>
    /\ UNCHANGED <<tvars, bvars, vvars, evars, lvars>>

PageNext == AddRow \/ ParsePage \/ ParseRow \/ ReturnRecords
SpecPage == Init /\ [][PageNext]_vars

(***************************************************************************)
(* The normalizer's claims.                                                *)
(***************************************************************************)

\* C1: clean_text is idempotent: cleaning the cleaned text changes nothing.
C1_Idempotent == pc = "done" => recleaned = cleaned

\* a digit, an en dash with a space on either side of it, a digit, at i
SpacedRangeAt(s, i) ==
    /\ IsDigit(s[i])
    /\ \/ At(s, i + 1, <<32, 8211, 32>>) /\ IsDigit(Ch(s, i + 4))     \* 'a – b'
       \/ At(s, i + 1, <<8211, 32>>) /\ IsDigit(Ch(s, i + 3))         \* 'a– b'
       \/ At(s, i + 1, <<32, 8211>>) /\ IsDigit(Ch(s, i + 3))         \* 'a –b'

\* C5: range tightening: the output of clean_text holds no numeric range,
\* alone or in a chain of ranges, with a space on either side of its dash.
C5_RangesTightened ==
    pc = "done" => \A i \in 1..Len(cleaned) : ~SpacedRangeAt(cleaned, i)

\* the dash before position j opens a numeric range: digits, a dash, a digit
OpensRange(s, j) ==
    /\ IsDigit(Ch(s, j))
    /\ Ch(s, RunEnd(IsDigit, s, j)) = 8211
    /\ IsDigit(Ch(s, RunEnd(IsDigit, s, j) + 1))

\* C6: dash spacing: where the input has '. –' directly followed by a
\* character X that is no space, the output has '. – X', one space after the
\* dash; unless the dash opens a numeric range (digits, dash, digit), and
\* then the output has '. –X' with no space.
C6_DashSpaced ==
    pc = "done" =>
        \A i \in 1..(Len(text) - 3) :
            (At(text, i, <<46, 32, 8211>>) /\ ~IsSpace(text[i + 3])) =>
                IF OpensRange(text, i + 3)
                THEN Contains(cleaned, <<46, 32, 8211, text[i + 3]>>)
                ELSE Contains(cleaned, <<46, 32, 8211, 32, text[i + 3]>>)

\* the number of dissertation ellipses '. ... ' of s, counted from the left
\* without overlap
EllipsisCount(s) ==
    Len(s) - Len(StrReplace(s, <<46, 32, 46, 46, 46, 32>>, <<0, 0, 0, 0, 0>>))

\* the places of s where '. ...' stands before one of the characters of after
EllipsisPlaces(s, after) ==
    {i \in 1..Len(s) : At(s, i, <<46, 32, 46, 46, 46>>) /\ Ch(s, i + 5) \in after}

\* C7: every dissertation ellipsis '. ... ' of the input stands in
\* the output with its three dots and both its spaces, and so does a leading
\* '... '.
C7_EllipsisVerbatim ==
    pc = "done" =>
        /\ Cardinality(EllipsisPlaces(cleaned, {32})) >= EllipsisCount(text)
        /\ At(text, 1, <<46, 46, 46, 32>>) => At(cleaned, 1, <<46, 46, 46, 32>>)

(***************************************************************************)
(* The classifier's claims.                                                *)
(***************************************************************************)

\* C2: classification is stable under normalization: the text as clean_text
\* leaves it gets the tag of the text as it was.
C2_TagStable == pc = "done" => tag_clean = tag

\* the steps of the check order
LastStep == 10

\* the signal of step k is present in s: the conditions the classifier tests
\* at that step.  Step 7 is the separator ' // ' together with a volume,
\* issue or newspaper marker in the segment after it.
Signal(k, s) ==
    CASE k = 1 -> \/ IsMultimedia(Lower(s)) \/ IsVisualMaterial(Lower(s))
                  \/ IsMusicScore(Lower(s)) \/ IsMap(Lower(s))
      [] k = 2 -> IsPatent(s)
      [] k = 3 -> \/ IsDissertation(Lower(s)) \/ IsAbstract(Lower(s))
                  \/ IsPreprint(Lower(s))
      [] k = 4 -> IsStandard(Lower(s))
      [] k = 5 -> IsLawCode(Lower(s)) \/ IsLawAct(Lower(s))
      [] k = 6 -> IsConference(Lower(s)) \/ IsCollection(Lower(s))
      [] k = 7 -> /\ HasSlashes(s)
                  /\ \/ HasVolumeOrIssue(AfterSlashes(s))
                     \/ HasNewspaper(Lower(AfterSlashes(s)))
      [] k = 8 -> HasEtAl(s)
      [] k = 9 -> AuthorSurnames(s) # {}
      [] k = 10 -> IsElectronic(Lower(s))

\* the tags step k returns
StepTags(k) ==
    CASE k = 1 -> {"multimedia", "visual_material", "music_score", "map"}
      [] k = 2 -> {"patent"}
      [] k = 3 -> {"dissertation", "abstract", "preprint"}
      [] k = 4 -> {"standard"}
      [] k = 5 -> {"law"}
      [] k = 6 -> {"conference", "collection_article"}
      [] k = 7 -> {"journal_article", "newspaper_article"}
      [] k = 8 -> {"book_4plus_authors"}
      [] k = 9 -> {"book_4plus_authors", "book_1_3_authors"}
      [] k = 10 -> {"electronic_resource"}

\* the first step from k on whose signal is present in s, 0 when none is
RECURSIVE FirstSignalFrom(_, _)
FirstSignalFrom(s, k) ==
    IF k > LastStep THEN 0
    ELSE IF Signal(k, s) THEN k
    ELSE FirstSignalFrom(s, k + 1)

\* the first step whose signal is present in s, 0 when none is
FirstSignal(s) == FirstSignalFrom(s, 1)

\* the tags the classifier returns
CategoryTags == UNION {StepTags(k) : k \in 1..LastStep} \cup {"unknown"}

\* C3: the check order: the tag returned is one of the first step, in the
\* order 1..10, whose signal is present in the text, whatever later signals
\* are present with it; no step's tag is returned when no signal is present.
C3_CheckOrder ==
    pc = "classified" =>
        LET first == FirstSignal(text)
        IN IF first > 0
           THEN tag \in StepTags(first)
           ELSE tag \notin UNION {StepTags(k) : k \in 1..LastStep}

\* a degree marker and an author stand in the text; the degree marker won
C3_Witness ==
    /\ pc = "classified"
    /\ Signal(3, text) /\ Signal(9, text)
    /\ tag = "dissertation"

\* C4: the classifier is total: the tag is one of the closed set of tags,
\* and it is 'unknown' exactly when no signal of the steps 1..10 is present.
C4_Total ==
    pc = "classified" =>
        /\ tag \in CategoryTags
        /\ tag = "unknown" <=> FirstSignal(text) = 0

\* a text with the periodical separator and no marker after it fell through
\* every step
C4_Witness ==
    /\ pc = "classified"
    /\ HasSlashes(text)
    /\ tag = "unknown"

(***************************************************************************)
(* The parser's claims.                                                    *)
(***************************************************************************)

\* the larger of two integers
Max(a, b) == IF a >= b THEN a ELSE b

\* C8: the confidence of a record, as a percentage, is
\* max(30, 100 - 20 [no authors] - 30 [no title] - 10 [no year]); it lies
\* within 0..100 and is never below 30.  (The stored binary64 fraction is the
\* double nearest to that percentage, or the next one above it.)
C8_Confidence ==
    (pc = "parsed" /\ record # None) =>
        LET m == record[1].input_metadata
            c == record[1].parsing_confidence
        IN /\ Percent(c) = Max(30, 100 - (IF m.authors = <<>> THEN 20 ELSE 0)
                                       - (IF m.title = <<>> THEN 30 ELSE 0)
                                       - (IF m.year = None THEN 10 ELSE 0))
           /\ Percent(c) \in 0..100
           /\ Percent(c) >= 30
           /\ c[2] \in 0..1

\* a record without authors, title and year: every penalty was taken
C8_Witness ==
    /\ pc = "parsed" /\ record # None
    /\ record[1].input_metadata.authors = <<>>
    /\ record[1].input_metadata.title = <<>>
    /\ record[1].input_metadata.year = None
    /\ Percent(record[1].parsing_confidence) = 40

\* a record was made of a text without a signal and without authors
Unmarked ==
    /\ pc = "parsed" /\ record # None
    /\ record[1].input_metadata.authors = <<>>
    /\ FirstSignal(text) = 0

\* C9: for an input with no classification marker and no detected author
\* the tag is 'unknown' and the confidence is at most 30 of 100, and
\* neither the classification nor the extraction raises.
C9_AtMost30 ==
    /\ Unmarked => tag = "unknown" /\ Percent(record[1].parsing_confidence) <= 30
    /\ ~(pc = "raised" /\ FirstSignal(text) = 0 /\ parse_authors(text) = <<>>)

\* '<title> [Электронный ресурс]. – Режим доступа: <url>. – <prefix> <date>.'
ElectronicCitation(title, url, prefix, date) ==
    title \o <<32, 91, 1069, 1083, 1077, 1082, 1090, 1088, 1086, 1085, 1085, 1099, 1081, 32, 1088, 1077, 1089, 1091, 1088, 1089, 93, 46, 32, 8211, 32, 1056, 1077, 1078, 1080, 1084, 32, 1076, 1086, 1089, 1090, 1091, 1087, 1072, 58, 32>> \o url
          \o <<46, 32, 8211, 32>> \o prefix \o <<32>> \o date \o <<46>>

\* C10: of an author-less electronic-resource citation the tag is
\* electronic_resource, parse_url gives the URL without the period that ends
\* the sentence, and parse_access_date gives the date, after 'Дата доступа:'
\* as after 'дата обращения:'.
C10_ElectronicResource ==
    pc = "parsed" =>
        \A prefix \in { <<1044, 1072, 1090, 1072, 32, 1076, 1086, 1089, 1090, 1091, 1087, 1072, 58>>,           \* 'Дата доступа:'
                        <<1076, 1072, 1090, 1072, 32, 1086, 1073, 1088, 1072, 1097, 1077, 1085, 1080, 1103, 58>> } :      \* 'дата обращения:'
            text = ElectronicCitation(
                       <<1053, 1072, 1094, 1080, 1086, 1085, 1072, 1083, 1100, 1085, 1099, 1081, 32, 1087, 1088, 1072, 1074, 1086, 1074, 1086, 1081, 32, 1087, 1086, 1088, 1090, 1072, 1083>>,     \* the title
                       <<104, 116, 116, 112, 58, 47, 47, 119, 119, 119, 46, 112, 114, 97, 118, 111, 46, 98, 121>>,              \* the URL
                       prefix,
                       <<50, 52, 46, 48, 54, 46, 50, 48, 50, 52>>)                       \* the date
            => /\ tag = "electronic_resource"
               /\ record # None
               /\ record[1].input_metadata.url = Some(<<104, 116, 116, 112, 58, 47, 47, 119, 119, 119, 46, 112, 114, 97, 118, 111, 46, 98, 121>>)
               /\ record[1].input_metadata.access_date = Some(<<50, 52, 46, 48, 54, 46, 50, 48, 50, 52>>)
(***************************************************************************)
(* The batch entry points' claim.                                          *)
(***************************************************************************)

\* C11: format_batch and format_batch_async return exactly one result per
\* input citation, in input order, whatever the order in which the batch
\* requests complete: the i-th result is the result of the i-th source, so
\* the results of an earlier batch precede those of a later one.
C11_OnePerSourceInOrder ==
    call = "returned" =>
        /\ Len(results) = Len(sources)
        /\ \A i \in 1..Len(results) :
               i <= Len(sources) =>
                   results[i].id = sources[i] /\ results[i].formatted = sources[i]


\* the batch a source went out in
BatchOf(k) ==
    CHOOSE b \in 1..Len(batches) : \E j \in 1..Len(batches[b]) : batches[b][j] = k

\* the results of an earlier batch precede those of a later one, a result
\* being told by the source its "original" is made of
BatchOrderKept ==
    call = "returned" =>
        \A i \in 1..Len(results) : \A j \in (i + 1)..Len(results) :
            BatchOf(results[i].original) <= BatchOf(results[j].original)

(***************************************************************************)
(* The extractor's claims.                                                 *)
(***************************************************************************)

\* C12: for every input text, of any length and content, parse_example
\* returns a record (its fields absent where nothing could be extracted), not
\* no result.
C12_AlwaysARecord ==
    pc = "parsed" =>
        /\ record # None
        /\ DOMAIN record[1].input_metadata = DOMAIN InputMetadataTypes

\* whether a pattern of the field's extractor matches somewhere in s
Matched(field, s) ==
    CASE field = "authors" ->
             \E i \in 1..Len(s) :
                 FamilyFirstEnd(s, i) > 0 \/ InitialsFirstParts(s, i)[2] > 0
      [] field = "title" ->
             (\E i \in 1..Len(s) : TitleAt(s, i)) \/ Find(s, <<58>>, 1) > 1
      [] field = "year" ->
             \E i \in 1..Len(s) :
                 \/ PublicationYearAt(s, i)
                 \/ YearAt(s, i) /\ WordBoundary(s, i) /\ WordBoundary(s, i + 4)
      [] field = "publisher" -> \E i \in 1..Len(s) : PublisherAt(s, i)
      [] field = "city" -> \E i \in 1..Len(s) : CityAt(s, i)
      [] field = "pages" ->
             \E i \in 1..Len(s) : PageCountAt(s, i) \/ PageSpanAt(s, i)
      [] field = "journal_title" -> \E i \in 1..Len(s) : JournalAt(s, i)
      [] field = "url" ->
             \E i \in 1..Len(s) :
                 SchemeEnd(s, i) > 0 /\ IsUrlChar(Ch(s, SchemeEnd(s, i)))
      [] field = "access_date" ->
             \E i \in 1..Len(s) :
                 /\ AccessPrefixEnd(Lower(s), i) > 0
                 /\ DateAt(s, AccessPrefixEnd(Lower(s), i))
      [] field = "doi" -> \E i \in 1..Len(s) : DoiEnd(s, i) > 0
      [] field = "volume" -> \E i \in 1..Len(s) : VolumeStart(Lower(s), i) > 0
      [] field = "issue" -> \E i \in 1..Len(s) : IssueStart(Lower(s), i) > 0
      [] OTHER -> FALSE

\* a field is reported absent: it holds None, which only an Optional can
IsAbsent(field, value) ==
    InputMetadataTypes[field] = "Optional" /\ value = None

\* C14: a field no pattern matches is reported absent, never as an empty
\* value, and this holds for every field, title and authors included; so a
\* field that did match, even with an empty extracted value, never holds
\* what an unmatched field holds.
C14_AbsentNotEmpty ==
    (pc = "parsed" /\ record # None) =>
        \A field \in DOMAIN InputMetadataTypes :
            LET value == record[1].input_metadata[field]
            IN IF Matched(field, text)
               THEN value # Metadata(<<>>)[field]
               ELSE IsAbsent(field, value)

(***************************************************************************)
(* More of the normalizer's claims.                                        *)
(***************************************************************************)

\* the period at i is the first of an ellipsis that stands after '. ', as a
\* protected dissertation ellipsis does
FirstOfEllipsis(s, i) ==
    At(s, i, <<46, 46, 46>>) /\ i > 2 /\ s[i - 1] = 32 /\ s[i - 2] = 46

\* C15: in clean_text's output no space stands immediately before a comma,
\* and none immediately before a period other than the first period of a
\* protected ellipsis, after all the rules have run.
C15_NoSpaceBeforePunctuation ==
    pc = "done" =>
        \A i \in 1..(Len(cleaned) - 1) :
            cleaned[i] = 32 =>
                /\ cleaned[i + 1] # 44
                /\ cleaned[i + 1] = 46 => FirstOfEllipsis(cleaned, i + 1)

\* where the k-th colon of s stands
RECURSIVE ColonsFrom(_, _)
ColonsFrom(s, i) ==
    IF i > Len(s) THEN <<>>
    ELSE IF s[i] = 58 THEN <<i>> \o ColonsFrom(s, i + 1)
    ELSE ColonsFrom(s, i + 1)
Colons(s) == ColonsFrom(s, 1)

\* a letter of the alphabets the citations are written in: Russian, Latin,
\* Belarusian
IsAlphabetLetter(c) == IsLetter(c) \/ c \in {1110, 1118, 1030, 1038}   \* і ў І Ў

\* the colon at i is the colon of 'http://' or of 'https://'
SchemeColon(s, i) ==
    /\ At(s, i, <<58, 47, 47>>)                                 \* '://'
    /\ \/ i > 4 /\ At(s, i - 4, <<104, 116, 116, 112>>)                \* 'http'
       \/ i > 5 /\ At(s, i - 5, <<104, 116, 116, 112, 115>>)               \* 'https'

\* C16: clean_text puts exactly one space after a colon that is directly
\* followed by a letter (':X' becomes ': X'), and it never alters the colon of
\* a URL scheme: every 'http://' and 'https://' of the input stands unchanged
\* in the output.  (The colons of the output are those of the input, in order.)
C16_ColonSpaced ==
    pc = "done" =>
        /\ Len(Colons(cleaned)) = Len(Colons(text))
        /\ \A k \in 1..Len(Colons(text)) :
               k <= Len(Colons(cleaned)) =>
                   LET i == Colons(text)[k]
                       j == Colons(cleaned)[k]
                   IN /\ IsAlphabetLetter(Ch(text, i + 1)) =>
                             Ch(cleaned, j + 1) = 32 /\ Ch(cleaned, j + 2) = text[i + 1]
                      /\ SchemeColon(text, i) => SchemeColon(cleaned, j)

\* the length of the match of the inverted form, 'Surname, I. I.', at i, and
\* of the direct form, 'I. I. Surname'; 0 when there is none
InvertedLen(s, i) == IF FamilyFirstEnd(s, i) > 0 THEN FamilyFirstEnd(s, i) - i ELSE 0
DirectLen(s, i) ==
    IF InitialsFirstParts(s, i)[2] > 0
    THEN FamilyEnd(s, InitialsFirstParts(s, i)[2]) - i
    ELSE 0

\* C17: parse_authors returns the matches of the inverted form, in order of
\* appearance, when there is at least one, and otherwise the matches of the
\* direct form turned to 'Surname, Initials'; either list is cut at 10
\* entries and nowhere else.
C17_AuthorsUpToTen ==
    (pc = "parsed" /\ record # None) =>
        LET inverted == FindAll(InvertedLen, FamilyFirstAuthor, text)
            direct == FindAll(DirectLen, InitialsFirstAuthor, text)
        IN record[1].input_metadata.authors =
               IF inverted # <<>> THEN Take(inverted, 10) ELSE Take(direct, 10)

\* a volume marker, 'Т.' or 'Vol.', at i with a number after it: where the
\* number starts, 0 when there is none
VolumeMarkerAt(s, i) ==
    LET d == IF At(s, i, <<1058, 46>>) \/ At(s, i, <<84, 46>>)      \* 'Т.', 'T.'
             THEN RunEnd(IsSpace, s, i + 2)
             ELSE IF At(s, i, <<86, 111, 108, 46>>)                  \* 'Vol.'
             THEN RunEnd(IsSpace, s, i + 4)
             ELSE 0
    IN IF d > 0 /\ IsDigit(Ch(s, d)) THEN d ELSE 0

\* an issue marker, the numero sign or 'No.', at i with a number after it
IssueMarkerAt(s, i) ==
    LET d == IF s[i] = 8470 THEN RunEnd(IsSpace, s, i + 1)    \* the numero sign
             ELSE IF At(s, i, <<78, 111, 46>>)                   \* 'No.'
             THEN RunEnd(IsSpace, s, i + 3)
             ELSE 0
    IN IF d > 0 /\ IsDigit(Ch(s, d)) THEN d ELSE 0

\* the number that starts at d
NumberAt(s, d) == SubSeq(s, d, RunEnd(IsDigit, s, d) - 1)

\* C19: parse_volume_issue returns a volume exactly when the text has a
\* volume marker, 'Т.' or 'Vol.', followed by a number, and then that number;
\* an issue exactly when it has an issue marker, the numero sign or 'No.',
\* followed by a number; neither depends on the other.
C19_VolumeIssue ==
    (pc = "parsed" /\ record # None) =>
        LET vol == FirstOf({i \in 1..Len(text) : VolumeMarkerAt(text, i) > 0})
            iss == FirstOf({i \in 1..Len(text) : IssueMarkerAt(text, i) > 0})
        IN /\ record[1].input_metadata.volume =
                  IF vol > 0 THEN Some(NumberAt(text, VolumeMarkerAt(text, vol))) ELSE None
           /\ record[1].input_metadata.issue =
                  IF iss > 0 THEN Some(NumberAt(text, IssueMarkerAt(text, iss))) ELSE None

\* an imprint after a dash at i, '– C : P, Y' or '– C, Y': a city of one
\* word, then a colon, a publisher and a comma, or a comma alone, then a
\* year.  <<where C starts, where C ends (exclusive), where P starts, where
\* P ends (exclusive)>>, the last two 0 without a publisher; <<0, 0, 0, 0>>
\* when there is no imprint at i.
ImprintAt(s, i) ==
    LET c == RunEnd(IsSpace, s, i + 1)
        e == RunEnd(IsAlphabetLetter, s, c)
        t == RunEnd(IsSpace, s, e)
        q == RunEnd(IsSpace, s, t + 1)
        comma == Find(s, <<44>>, q)
        IsYear(y) == IsDigit(Ch(s, y)) /\ IsDigit(Ch(s, y + 1))
                         /\ IsDigit(Ch(s, y + 2)) /\ IsDigit(Ch(s, y + 3))
    IN IF ~(IsDash(s[i]) /\ e > c) THEN <<0, 0, 0, 0>>
       ELSE IF Ch(s, t) = 44 /\ IsYear(q) THEN <<c, e, 0, 0>>
       ELSE IF Ch(s, t) = 58 /\ comma > q /\ IsYear(RunEnd(IsSpace, s, comma + 1))
       THEN <<c, e, q, comma>>
       ELSE <<0, 0, 0, 0>>

\* C20: city and publisher are extracted from the imprint that follows a dash,
\* each whether or not the other is there: for '– C : P, Y' parse_city returns
\* C and parse_publisher returns P, and for '– C, Y', without a publisher,
\* parse_city still returns C and parse_publisher returns nothing.
C20_CityAndPublisher ==
    (pc = "parsed" /\ record # None) =>
        LET first == FirstOf({i \in 1..Len(text) : ImprintAt(text, i)[1] > 0})
            parts == ImprintAt(text, first)
        IN first > 0 =>
               /\ record[1].input_metadata.city =
                      Some(SubSeq(text, parts[1], parts[2] - 1))
               /\ record[1].input_metadata.publisher =
                      IF parts[3] > 0
                      THEN Some(Strip(SubSeq(text, parts[3], parts[4] - 1)))
                      ELSE None

\* a token of four digits at j with a value from 1950 to 2029
YearTokenAt(s, j) ==
    /\ IsDigit(Ch(s, j)) /\ IsDigit(Ch(s, j + 1))
    /\ IsDigit(Ch(s, j + 2)) /\ IsDigit(Ch(s, j + 3))
    /\ YearValue(s, j) \in 1950..2029

\* the token at j stands alone: no letter, digit or underscore next to it
StandaloneYearAt(s, j) ==
    YearTokenAt(s, j) /\ ~IsWord(Ch(s, j - 1)) /\ ~IsWord(Ch(s, j + 4))

\* the token at j is in the strict form: the last character before it that
\* is not whitespace is a comma or a dash, and the first one after it a
\* period or a dash
StrictYearAt(s, j) ==
    /\ YearTokenAt(s, j)
    /\ \E p \in 1..(j - 1) :
           /\ s[p] \in {44, 8211, 8212}
           /\ \A k \in (p + 1)..(j - 1) : IsSpace(s[k])
    /\ Ch(s, RunEnd(IsSpace, s, j + 4)) \in {46, 8211, 8212}

\* C18: parse_year returns the first year in the strict form whenever there
\* is one, even after an earlier four-digit token in range; otherwise the
\* first standalone four-digit token from 1950 to 2029; otherwise nothing.
\* A year it returns is always from 1950 to 2029.
C18_StrictYearFirst ==
    pc = "parsed" =>
        LET strict == FirstOf({j \in 1..Len(text) : StrictYearAt(text, j)})
            alone == FirstOf({j \in 1..Len(text) : StandaloneYearAt(text, j)})
        IN /\ pub_year = IF strict > 0 THEN Some(YearValue(text, strict))
                         ELSE IF alone > 0 THEN Some(YearValue(text, alone))
                         ELSE None
           /\ pub_year # None => pub_year[1] \in 1950..2029

\* a year in the strict form is returned although another year stands
\* alone before it
C18_Witness ==
    /\ pc = "parsed"
    /\ \E i \in 1..Len(text) : \E j \in (i + 1)..Len(text) :
           /\ StandaloneYearAt(text, i) /\ ~StrictYearAt(text, i)
           /\ StrictYearAt(text, j)
           /\ YearValue(text, i) # YearValue(text, j)
           /\ pub_year = Some(YearValue(text, j))

(***************************************************************************)
(* The classifier's steps.                                                 *)
(***************************************************************************)

\* C21: a text that carries the 'автореф' marker and has no bracketed-medium
\* marker and no patent marker is tagged 'abstract', whether or not the
\* degree marker 'дис. ...' stands in it as well (as in the citations of
\* generate_abstract, '... : автореф. дис. ... канд. ...').
C21_AbstractMarker ==
    (/\ pc = "classified"
     /\ IsAbstract(Lower(text))
     /\ ~Signal(1, text)
     /\ ~IsPatent(text)) => tag = "abstract"

\* the whole text after the first ' // '
AfterFirstSlashes(s) == From(s, Find(s, <<32, 47, 47, 32>>, 1) + 4)

\* the tags of the steps after the periodical step, and the last return
LaterTags == StepTags(8) \cup StepTags(9) \cup StepTags(10) \cup {"unknown"}

\* C22: in a text with no marker of the steps 1..6 and with the separator
\* ' // ': a volume or issue marker anywhere after the first separator gives
\* journal_article; otherwise a newspaper token after it gives
\* newspaper_article; otherwise the tag is one of the later steps.
C22_Periodicals ==
    (/\ pc = "classified"
     /\ HasSlashes(text)
     /\ \A k \in 1..6 : ~Signal(k, text)) =>
        IF HasVolumeOrIssue(AfterFirstSlashes(text))
        THEN tag = "journal_article"
        ELSE IF HasNewspaper(Lower(AfterFirstSlashes(text)))
        THEN tag = "newspaper_article"
        ELSE tag \in LaterTags

\* the distinct 'Surname, Initial.' of s: each surname together with the
\* initial that follows it
AuthorMatches(s) ==
    {Append(SubSeq(s, i, RunEnd(IsLower, s, i + 1) - 1),
            Ch(s, RunEnd(IsSpace, s, RunEnd(IsLower, s, i + 1) + 1))) :
        i \in {j \in 1..Len(s) :
                 /\ IsUpper(s[j])
                 /\ RunEnd(IsLower, s, j + 1) > j + 1
                 /\ Ch(s, RunEnd(IsLower, s, j + 1)) = 44
                 /\ RunEnd(IsSpace, s, RunEnd(IsLower, s, j + 1) + 1)
                        > RunEnd(IsLower, s, j + 1) + 1
                 /\ IsUpper(Ch(s, RunEnd(IsSpace, s, RunEnd(IsLower, s, j + 1) + 1)))
                 /\ Ch(s, RunEnd(IsSpace, s, RunEnd(IsLower, s, j + 1) + 1) + 1) = 46}}

\* C23: when no step 1..7 matches, the tag follows the number of distinct
\* 'Surname, Initial.' authors: book_4plus_authors with 4 or more or with
\* '[и др.]' / '[et al.]', book_1_3_authors with 1, 2 or 3, and neither book
\* tag with none and no multi-author marker.
C23_AuthorCount ==
    (/\ pc = "classified"
     /\ \A k \in 1..7 : ~Signal(k, text)) =>
        IF Cardinality(AuthorMatches(text)) >= 4 \/ HasEtAl(text)
        THEN tag = "book_4plus_authors"
        ELSE IF Cardinality(AuthorMatches(text)) >= 1
        THEN tag = "book_1_3_authors"
        ELSE tag \notin {"book_4plus_authors", "book_1_3_authors"}

(***************************************************************************)
(* The validator's claim.                                                  *)
(***************************************************************************)

\* a hyphen between two numbers of four digits each, the first at i
HyphenatedNumbersAt(s, i) ==
    /\ YearPairLen(s, i) > 0
    /\ ~IsDigit(Ch(s, i - 1))
    /\ ~IsDigit(Ch(s, i + 9))

\* the kinds of the findings check_punctuation_errors has for other things
\* than a hyphen between two numbers of four digits
OtherKinds == {"missing_space_after_dash", "missing_space_after_colon",
               "missing_space_after_initials", "spaces_in_range",
               "trailing_space_in_range", "leading_space_in_range",
               "double_spaces", "hyphen_in_page_range", "page_range_spaces"}

\* C24: a hyphen between two 4-digit numbers y1-y2 is reported as
\* 'hyphen_instead_of_dash' exactly when 1990 <= y1 < y2 <= 2030; in every
\* other case the ambiguity is recorded as an issue of its own.  The check
\* returns its findings: it does not raise.
C24_AmbiguousRange ==
    (pc = "checked" /\ \E i \in 1..Len(text) : HyphenatedNumbersAt(text, i)) =>
        /\ raised = ""
        /\ (\E k \in 1..Len(errors) : errors[k] = "hyphen_instead_of_dash")
              <=> \E i \in 1..Len(text) :
                      HyphenatedNumbersAt(text, i) /\ IsYearRange(YearPair(text, i))
        /\ (\E i \in 1..Len(text) :
                HyphenatedNumbersAt(text, i) /\ ~IsYearRange(YearPair(text, i)))
              => \E k \in 1..Len(errors) :
                     errors[k] \notin OtherKinds \cup {"hyphen_instead_of_dash"}

(***************************************************************************)
(* The batch entry points: concurrency and statistics.                     *)
(***************************************************************************)

\* the batch requests in flight: the semaphore acquired, the reply not yet
\* received
InFlight == Cardinality({b \in 1..Len(batches) : task[b] = "requesting"})

\* C25: during a format_batch_async call at most max_concurrent of its batch
\* requests are in flight at any moment, for every number of batches and
\* every completion order; a batch gives its permit back when its request
\* succeeds and when it fails, so the permits left are max_concurrent less
\* the requests in flight.
C25_AtMostMaxConcurrent ==
    max_concurrent > 0 =>
        /\ InFlight <= max_concurrent
        /\ semaphore = max_concurrent - InFlight

\* a request failed and gave its permit back, every permit is taken again
\* and a batch waits for one
C25_Witness ==
    /\ max_concurrent > 0
    /\ InFlight = max_concurrent
    /\ \E b \in 1..Len(batches) : task[b] = "failed"
    /\ \E b \in 1..Len(batches) : task[b] = "waiting"

\* C30: when no call is under way, stats["processed"] is the number of
\* results the calls have returned to their callers and stats["errors_fixed"]
\* the number of fixes in those results: a call that failed on an empty or
\* non-JSON reply has left both as they were.
C30_StatsMatchReturned ==
    call \in {"idle", "returned", "raised"} =>
        /\ stats.processed = returned.results
        /\ stats.errors_fixed = returned.errors_fixed

(***************************************************************************)
(* The expander's claims.                                                  *)
(***************************************************************************)

\* C26: for a dataset with a record whose type is not 'unknown' and a
\* target_count of at least len(records), expand terminates and returns
\* exactly target_count records.
C26_ExpandsToTarget ==
    (epc = "while" /\ target_count >= Len(records))
        ~> (epc = "returned" /\ Len(expanded) = target_count)

\* the number of variations in self.expanded derived from record i
VariationsOf(i) ==
    Cardinality({k \in 1..Len(expanded) :
                     expanded[k].is_variation /\ expanded[k].of = i})

\* C27: in the list expand returns no original record has more than
\* variations_per_record variations, and an 'unknown' record has none.
C27_AtMostVariationsPerRecord ==
    epc = "returned" =>
        \A i \in 1..Len(records) :
            /\ VariationsOf(i) <= variations_per_record
            /\ records[i].source_type = "unknown" => VariationsOf(i) = 0

(***************************************************************************)
(* The lookup's claims.                                                    *)
(***************************************************************************)

\* an ISBN written with or without hyphens and spaces: ten characters, nine
\* digits and a digit or X, or thirteen digits
LooksLikeIsbn(t) ==
    LET c == StrReplace(StrReplace(Strip(t), <<45>>, <<>>), <<32>>, <<>>)
    IN  \/ /\ Len(c) = 10
           /\ \A k \in 1..9 : IsDigit(c[k])
           /\ IsDigit(c[10]) \/ c[10] \in {88, 120}
        \/ /\ Len(c) = 13
           /\ \A k \in 1..13 : IsDigit(c[k])

\* C28: lookup does not raise and returns a MetadataResult; success only
\* with data and without error; a failure has an error; an identifier that
\* is neither a DOI nor an ISBN gives success=false, source 'unknown' and
\* no HTTP request.
C28_LookupResult ==
    pc = "looked" =>
        /\ raised = ""
        /\ Len(result) = 1
        /\ result[1].success => (result[1].data # None /\ result[1].error = None)
        /\ ~result[1].success => result[1].error # None
        /\ (~DOI_PATTERN(Strip(text)) /\ ~LooksLikeIsbn(text)) =>
               /\ ~result[1].success
               /\ result[1].source = "unknown"
               /\ http_requests = <<>>

(***************************************************************************)
(* The page parser's claims.                                               *)
(***************************************************************************)

\* row q of the page is row p or comes before it
NotAfter(q, p) == q[1] < p[1] \/ (q[1] = p[1] /\ q[2] <= p[2])

\* the type of the first cell of row q, a row of two cells or more
HeaderType(q) == detect_source_type(Strip(page[q[1]][q[2]][1]))

\* the rows up to p whose first cell, longer than 5 characters, maps to a
\* known type
KnownHeaders(p) ==
    {q \in {<<t, r>> : t \in 1..Len(page), r \in 1..MaxPageRows + 1} :
        /\ q[2] <= Len(page[q[1]])
        /\ NotAfter(q, p)
        /\ Len(page[q[1]][q[2]]) >= 2
        /\ Len(Strip(page[q[1]][q[2]][1])) > 5
        /\ HeaderType(q) # "unknown"}

StickyType(p) ==
    IF KnownHeaders(p) = {} THEN "unknown"
    ELSE HeaderType(CHOOSE q \in KnownHeaders(p) :
                        \A o \in KnownHeaders(p) : NotAfter(o, q))

\* C29: every record parse_page appends while it is at a row has the type of
\* the most recent first cell, up to that row, that is longer than 5
\* characters and maps to a known type, 'unknown' when there is none; and
\* the index parse_example was given is the number of records before it.
C29_StickyType ==
    [][\A k \in (Len(page_records) + 1)..Len(page_records') :
           /\ page_records'[k].source_type = StickyType(position)
           /\ page_records'[k].id[2] = k - 1]_vars

\* a page of two tables of one row has been parsed: the first cell of the
\* first table maps to a known type and its second cell is empty, the first
\* cell of the second table maps to no type, and the examples of the second
\* table are recorded with the type of the first
C29_Witness ==
    /\ ppc = "returned"
    /\ Len(page) = 2
    /\ Len(page[1]) = 1
    /\ Len(page[1][1]) >= 2
    /\ page[1][1][2] = <<>>
    /\ HeaderType(<<1, 1>>) # "unknown"
    /\ Len(page[2]) = 1
    /\ Len(page[2][1]) >= 2
    /\ HeaderType(<<2, 1>>) = "unknown"
    /\ Len(page_records) >= 2
    /\ page_records[Len(page_records)].source_type = HeaderType(<<1, 1>>)
    /\ page_records[Len(page_records)].source_type # "unknown"
    /\ page_records[Len(page_records)].id[2] = Len(page_records) - 1

====
